---- MODULE Spec2Model ----
(***************************************************************************)
(* Model of the cashupp cryptographic core: secp256k1 scalar/point types   *)
(* (secp.cpp), hash-to-curve, the BDHKE protocol and its DLEQ proof        *)
(* (b_dhke.cpp).                                                           *)
(*                                                                         *)
(* The curve is scaled down so that TLC can enumerate the whole group:     *)
(* the same equation y^2 = x^3 + 7, over the field of 13 elements, whose   *)
(* group has prime order 7.  A byte has 4 bits (a hex digit has 2), a      *)
(* scalar or a coordinate is KEY_BYTES = 1 byte long instead of 32, so     *)
(*    CURVE_ORDER < FIELD_PRIME < 2^(bits of KEY_BYTES bytes)              *)
(* holds as it does for secp256k1, and hash outputs can fall outside the   *)
(* field and outside the scalar range as SHA-256 outputs can.  SHA-256 is  *)
(* an external function: it is modelled by a family of deterministic       *)
(* functions on byte strings, one member of which is fixed per behaviour   *)
(* (variable salt).                                                        *)
(***************************************************************************)
EXTENDS Integers, Sequences, FiniteSets, TLC

VARIABLES
    salt,     \* the member of the hash family standing for SHA-256
    pc,       \* position of the protocol session / of the caller
    secret,   \* holder: secret_msg
    a,        \* issuer: private scalar
    r,        \* holder: blinding factor
    B_,       \* blinded message B'
    C_,       \* blinded signature C'
    e,        \* DLEQ challenge
    s,        \* DLEQ response
    C,        \* unblinded signature
    input,    \* argument of the last constructor / check called directly
    ret,      \* outcome of the last operation: returned value or exception
    htc_msg_to_hash,  \* hash-to-curve loop in progress: its local msg_to_hash
    htc_counter,      \* hash-to-curve loop in progress: its local counter
    ctx,      \* the function-local static of get_secp_context and its guard
    thread    \* concurrent callers: position, call, context pointer held, outcome

vars == <<salt, pc, secret, a, r, B_, C_, e, s, C, input, ret, htc_msg_to_hash, htc_counter, ctx, thread>>

-----------------------------------------------------------------------------
(* Scaled program constants *)

CURVE_ORDER == 7

FIELD_PRIME == 13

\* number of values of one byte (uint8_t)
BYTE_MOD == 16

\* number of values of one hex digit
HEX_BASE == 4

\* length in bytes of a scalar and of a coordinate
KEY_BYTES == 1

\* hash_to_curve tries counters 0 .. HTC_MAX_ITER - 1
HTC_MAX_ITER == 4

\* INT_MAX of a 32-bit int
INT_MAX == 2147483647

\* bits of a byte (8 in the code)
BYTE_BITS == 4

\* bits of a mnemonic word (11 in the code): the wordlist has 2^WORD_BITS words
WORD_BITS == 3

\* entropy bits per checksum bit (32 in the code)
CHECKSUM_RATIO == 8

\* entropy sizes in bytes: 16 to 32 in steps of 4 in the code
ENTROPY_MIN == 2

ENTROPY_MAX == 4

ENTROPY_STEP == 2

\* mnemonic lengths in words: 12 to 24 in steps of 3 in the code
WORDS_MIN == 3

WORDS_MAX == 6

\* AES block size in bytes (16 in the code)
BLOCK_SIZE == 2

\* bytes of the salt (8 in the code) and of the AES key (32 in the code)
AES_SALT_LEN == 1

AES_KEY_LEN == 2

\* "Salted__"
SALT_HEADER == <<5, 3>>

\* size of the base64 alphabet (64 in the code): 4 characters spell 3 bytes
B64_BASE == 8

\* hex characters of the hash in a keyset identifier (14 of 64 in the code)
KEYSET_ID_HEX_CHARS == 1

\* base64 characters of a legacy keyset identifier (12 of 44 in the code)
KEYSET_ID_B64_CHARS == 1

(* Bounds of the model *)

\* the hash family has initial values 0 .. MaxSalt
MaxSalt == 1

\* secrets are the empty string and the one-byte strings <<0>> .. <<MaxSecret>>
MaxSecret == 1

\* big integers handed to PrivateKey(cpp_int) range over -MaxInt .. CURVE_ORDER + MaxInt
MaxInt == 2

\* hex strings handed to PrivateKey(string) have at most MaxHexLen characters
MaxHexLen == 4

\* the random source of a session returns the values 0 .. MaxDraw
MaxDraw == 7

\* byte strings handed to PrivateKey(bytes) have at most MaxKeyLen bytes
MaxKeyLen == 2

\* byte strings handed to PublicKey(bytes, raw) have at most MaxDataLen bytes
MaxDataLen == 3

\* longest message handed to the hash-to-curve functions called directly
MaxMsgLen == 1

\* most levels of a derivation path below "m"
MaxPathDepth == 1

\* longest amount list handed to a derivation
MaxAmounts == 2

\* most entries of a key map handed to a keyset identifier derivation
MaxKeys == 2

\* threads that call into the library concurrently
MaxThreads == 2

\* largest fee reserve, in sat, handed to calculate_number_of_blank_outputs
MaxFee == 1030

\* longest entropy, in bytes, handed to entropy_to_mnemonic
MaxEntropyLen == 4

\* longest message, in bytes, handed to AESCipher::encrypt
MaxMessageLen == 3

\* longest vector handed to PublicKey::combine
MaxCombine == 3

\* largest major and patch number of a version string
MaxVersion == 1

-----------------------------------------------------------------------------
(* Outcomes: a call returns a value or raises *)

\* before any call: no argument, no outcome
NoInput == [op |-> "none"]

NoRet == [op |-> "none", ok |-> TRUE, val |-> "none", err |-> "none", attempts |-> <<>>]

Ok(v) == [ok |-> TRUE, val |-> v, err |-> "none"]

Raise(kind) == [ok |-> FALSE, val |-> "none", err |-> kind]

\* a call that never returns (an unbounded loop that finds nothing)
Diverge == [ok |-> FALSE, val |-> "none", err |-> "diverges"]

\* the value of the static pointer before its initializer has run
NullContext == 0 - 0

Threads == 1 .. MaxThreads

Bytes == 0 .. BYTE_MOD - 1

RECURSIVE BytesToInt(_)
\* big-endian bytes to integer: value = (value << 8) + byte
BytesToInt(bs) ==
    IF bs = <<>> THEN 0
    ELSE BytesToInt(SubSeq(bs, 1, Len(bs) - 1)) * BYTE_MOD + bs[Len(bs)]

RECURSIVE IntToBytes(_, _)
\* the len low-order bytes of v, big-endian: bytes[i] = temp & 0xFF; temp >>= 8
IntToBytes(v, len) ==
    IF len = 0 THEN <<>>
    ELSE Append(IntToBytes(v \div BYTE_MOD, len - 1), v % BYTE_MOD)

-----------------------------------------------------------------------------
(* libsecp256k1: the group of the curve y^2 = x^3 + 7 over FIELD_PRIME *)

Infinity == <<>>

OnCurve(x, y) == (y * y) % FIELD_PRIME = (x * x * x + 7) % FIELD_PRIME

AffinePoints ==
    {pt \in (0 .. FIELD_PRIME - 1) \X (0 .. FIELD_PRIME - 1) : OnCurve(pt[1], pt[2])}

FieldInv(v) == CHOOSE i \in 1 .. FIELD_PRIME - 1 : (v * i) % FIELD_PRIME = 1

\* the group law (chord and tangent), Infinity being the neutral element
GroupLaw(P, Q) ==
    IF P = Infinity THEN Q
    ELSE IF Q = Infinity THEN P
    ELSE IF P[1] = Q[1] /\ (P[2] + Q[2]) % FIELD_PRIME = 0 THEN Infinity
    ELSE LET lam == IF P = Q
                    THEN (3 * P[1] * P[1] * FieldInv((2 * P[2]) % FIELD_PRIME)) % FIELD_PRIME
                    ELSE ((Q[2] - P[2]) * FieldInv((Q[1] - P[1]) % FIELD_PRIME)) % FIELD_PRIME
             x3 == (lam * lam - P[1] - Q[1]) % FIELD_PRIME
             y3 == (lam * (P[1] - x3) - P[2]) % FIELD_PRIME
         IN <<x3, y3>>

\* the group law, tabulated once
AddTable == [P \in AffinePoints \cup {Infinity} |->
                [Q \in AffinePoints \cup {Infinity} |-> GroupLaw(P, Q)]]

ec_add(P, Q) == AddTable[P][Q]

RECURSIVE ScalarMul(_, _)
ScalarMul(k, P) == IF k = 0 THEN Infinity ELSE ec_add(P, ScalarMul(k - 1, P))

\* scalar multiplication, tabulated once for the scalars below CURVE_ORDER
ScalarMulTable == [k \in 0 .. CURVE_ORDER - 1 |-> [P \in AffinePoints |-> ScalarMul(k, P)]]

ec_mul(k, P) == ScalarMulTable[k][P]

\* the affine point a serialization denotes, or Infinity when it is refused (wrong
\* length or prefix, coordinate >= FIELD_PRIME, not on the curve)
ParsePoint(data) ==
    IF Len(data) = 1 + KEY_BYTES /\ data[1] \in {2, 3}
    THEN LET x == BytesToInt(SubSeq(data, 2, 1 + KEY_BYTES))
             ys == {y \in 0 .. FIELD_PRIME - 1 : OnCurve(x, y) /\ y % 2 = data[1] - 2}
         IN IF x < FIELD_PRIME /\ ys # {} THEN <<x, CHOOSE y \in ys : TRUE>> ELSE Infinity
    ELSE IF Len(data) = 1 + 2 * KEY_BYTES /\ data[1] \in {4, 6, 7}
    THEN LET x == BytesToInt(SubSeq(data, 2, 1 + KEY_BYTES))
             y == BytesToInt(SubSeq(data, 2 + KEY_BYTES, 1 + 2 * KEY_BYTES))
         IN IF /\ x < FIELD_PRIME
               /\ y < FIELD_PRIME
               /\ OnCurve(x, y)
               /\ (data[1] = 6 => y % 2 = 0)
               /\ (data[1] = 7 => y % 2 = 1)
            THEN <<x, y>> ELSE Infinity
    ELSE Infinity

\* ParsePoint, tabulated once for the byte strings of the two accepted lengths
ParseTable ==
    [data \in [1 .. 1 + KEY_BYTES -> Bytes] \cup [1 .. 1 + 2 * KEY_BYTES -> Bytes] |->
        ParsePoint(data)]

\* secp256k1_ec_pubkey_parse
ec_pubkey_parse(data) ==
    IF Len(data) \in {1 + KEY_BYTES, 1 + 2 * KEY_BYTES} THEN ParseTable[data] ELSE Infinity

\* secp256k1_ec_pubkey_serialize of a finite point
ec_pubkey_serialize(P, compressed) ==
    IF compressed
    THEN <<2 + (P[2] % 2)>> \o IntToBytes(P[1], KEY_BYTES)
    ELSE <<4>> \o IntToBytes(P[1], KEY_BYTES) \o IntToBytes(P[2], KEY_BYTES)

-----------------------------------------------------------------------------
(* secp_utils *)

HexDigits == <<"0", "1", "2", "3">>

IsHexDigit(c) == \E d \in 1 .. HEX_BASE : HexDigits[d] = c

DigitVal(c) == (CHOOSE d \in 1 .. HEX_BASE : HexDigits[d] = c) - 1

\* istringstream(two characters) >> std::hex >> byte: the longest prefix of hex
\* digits is converted; when there is none the extraction fails and stores 0
ParseHexByte(c1, c2) ==
    IF ~IsHexDigit(c1) THEN 0
    ELSE IF ~IsHexDigit(c2) THEN DigitVal(c1)
    ELSE DigitVal(c1) * HEX_BASE + DigitVal(c2)

hex_to_bytes(hex) ==
    LET stripped == IF Len(hex) >= 2 /\ hex[1] = "0" /\ hex[2] \in {"x", "X"}
                    THEN SubSeq(hex, 3, Len(hex)) ELSE hex
        clean_hex == IF Len(stripped) % 2 # 0 THEN <<"0">> \o stripped ELSE stripped
    IN [i \in 1 .. Len(clean_hex) \div 2 |->
            ParseHexByte(clean_hex[2 * i - 1], clean_hex[2 * i])]

bytes_to_hex(bytes) ==
    [i \in 1 .. 2 * Len(bytes) |->
        IF i % 2 = 1 THEN HexDigits[(bytes[(i + 1) \div 2] \div HEX_BASE) + 1]
        ELSE HexDigits[(bytes[i \div 2] % HEX_BASE) + 1]]

\* a range check that lets the curve order itself through
is_valid_private_key_inclusive(value) == value > 0 /\ value <= CURVE_ORDER

is_valid_private_key(value) == value > 0 /\ value < CURVE_ORDER

-----------------------------------------------------------------------------
(* PrivateKey: the object is its field private_key_ *)

\* what a PrivateKey variable holds before any key is stored in it
NoKey == 0 - 1

validate_key(private_key_) ==
    IF ~is_valid_private_key(private_key_) THEN Raise("invalid_argument")
    ELSE Ok(private_key_)

PrivateKey_bytes(key_data) ==
    IF Len(key_data) # KEY_BYTES THEN Raise("invalid_argument")
    ELSE validate_key(BytesToInt(key_data))

PrivateKey_int(key_value) == validate_key(key_value)

PrivateKey_hex(hex_string) ==
    LET key_data == hex_to_bytes(hex_string)
    IN IF Len(key_data) # KEY_BYTES THEN Raise("invalid_argument")
       ELSE validate_key(BytesToInt(key_data))

PrivateKey_serialize(k) == IntToBytes(k, KEY_BYTES)

-----------------------------------------------------------------------------
(* PublicKey: the object is the pair of its fields point_data_, is_compressed_ *)

\* x continues into F unless it raised: the statements after a call that can throw
Bind(x, F(_)) == IF x.ok THEN F(x.val) ELSE x

GENERATOR_POINT == <<2, 7>>

NoPoint == [point_data |-> <<>>, is_compressed |-> FALSE]

\* a validate_point that does not ask libsecp
validate_point_skipped(pk) == Ok(pk)

validate_point(pk) ==
    IF ec_pubkey_parse(pk.point_data) = Infinity THEN Raise("invalid_argument")
    ELSE Ok(pk)

init_from_data(data, raw) ==
    IF raw
    THEN IF Len(data) # 2 * KEY_BYTES THEN Raise("invalid_argument")
         ELSE validate_point([point_data |-> <<4>> \o data, is_compressed |-> FALSE])
    ELSE IF Len(data) = 1 + KEY_BYTES /\ data[1] \in {2, 3}
         THEN validate_point([point_data |-> data, is_compressed |-> TRUE])
         ELSE IF Len(data) = 1 + 2 * KEY_BYTES /\ data[1] = 4
         THEN validate_point([point_data |-> data, is_compressed |-> FALSE])
         ELSE Raise("invalid_argument")

PublicKey_bytes(point_data, raw) == init_from_data(point_data, raw)

\* serialize a libsecp result in compressed form and wrap it: PublicKey(serialized)
PublicKey_of(P) == PublicKey_bytes(ec_pubkey_serialize(P, TRUE), FALSE)

\* secp256k1_ec_pubkey_create: refuses 0 and values >= CURVE_ORDER
ec_pubkey_create(seckey) ==
    IF seckey = 0 \/ seckey >= CURVE_ORDER THEN Raise("runtime_error")
    ELSE Ok(ec_mul(seckey, ec_pubkey_parse(GENERATOR_POINT)))

\* the values a PrivateKey object can hold (validate_key has passed)
Scalars == 1 .. CURVE_ORDER - 1

\* the PublicKey objects the operations return: valid points, compressed
PublicKeys ==
    {[point_data |-> ec_pubkey_serialize(P, TRUE), is_compressed |-> TRUE] : P \in AffinePoints}

PrivateKey_pubkey(k) ==
    Bind(ec_pubkey_create(BytesToInt(IntToBytes(k, KEY_BYTES))), LAMBDA created :
    PublicKey_of(created))

\* PrivateKey_pubkey, tabulated once over the PrivateKey objects
PubkeyTable == [k \in Scalars |-> PrivateKey_pubkey(k)]

pubkey(k) == PubkeyTable[k]

\* a tweak_add that subtracts
tweak_add_negated(k, scalar) == PrivateKey_int((k - scalar) % CURVE_ORDER)

\* operator% of cpp_int: the quotient is truncated, the result has the sign of x
cpp_int_mod(x, n) == IF x >= 0 THEN x % n ELSE 0 - ((0 - x) % n)

tweak_add(k, scalar) == PrivateKey_int(cpp_int_mod(k + scalar, CURVE_ORDER))

\* a tweak_mul that returns the product without constructing a PrivateKey from it
tweak_mul_unchecked(k, scalar) == Ok(cpp_int_mod(k * scalar, CURVE_ORDER))

tweak_mul(k, scalar) == PrivateKey_int(cpp_int_mod(k * scalar, CURVE_ORDER))

\* secp256k1_ec_pubkey_parse as the methods call it: failure raises runtime_error
parse_or_raise(pk) ==
    IF ec_pubkey_parse(pk.point_data) = Infinity THEN Raise("runtime_error")
    ELSE Ok(ec_pubkey_parse(pk.point_data))

\* secp256k1_ec_pubkey_combine: refuses a sum that is the point at infinity
ec_pubkey_combine(P, Q) ==
    IF ec_add(P, Q) = Infinity THEN Raise("runtime_error") ELSE Ok(ec_add(P, Q))

RECURSIVE ec_add_all(_)
\* the sum secp256k1_ec_pubkey_combine accumulates over its n points
ec_add_all(points) ==
    IF Len(points) = 1 THEN Head(points)
    ELSE ec_add(Head(points), ec_add_all(Tail(points)))

\* secp256k1_ec_pubkey_combine on n >= 1 points
ec_pubkey_combine_all(points) ==
    IF ec_add_all(points) = Infinity THEN Raise("runtime_error")
    ELSE Ok(ec_add_all(points))

RECURSIVE parse_all(_)
\* the parsing loop of PublicKey::combine
parse_all(pubkeys) ==
    IF pubkeys = <<>> THEN Ok(<<>>)
    ELSE Bind(parse_or_raise(Head(pubkeys)), LAMBDA parsed :
         Bind(parse_all(Tail(pubkeys)), LAMBDA rest :
         Ok(<<parsed>> \o rest)))

\* an operator+ that returns its left operand
PublicKey_operator_plus_left(pk, other) == validate_point(pk)

PublicKey_operator_plus(pk, other) ==
    Bind(parse_or_raise(pk), LAMBDA pubkey1 :
    Bind(parse_or_raise(other), LAMBDA pubkey2 :
    Bind(ec_pubkey_combine(pubkey1, pubkey2), LAMBDA result :
    PublicKey_of(result))))

\* operator+, tabulated once over the PublicKey objects
PlusTable ==
    [pk \in PublicKeys |-> [other \in PublicKeys |-> PublicKey_operator_plus(pk, other)]]

PublicKey_add(pk, other) == PlusTable[pk][other]

PublicKey_serialize(pk, compressed) ==
    Bind(parse_or_raise(pk), LAMBDA parsed :
    Ok(ec_pubkey_serialize(parsed, compressed)))

PublicKey_operator_neg(pk) ==
    Bind(PublicKey_serialize(pk, TRUE), LAMBDA serialized :
    IF serialized[1] = 2 THEN PublicKey_bytes(<<3>> \o Tail(serialized), FALSE)
    ELSE IF serialized[1] = 3 THEN PublicKey_bytes(<<2>> \o Tail(serialized), FALSE)
    ELSE Raise("runtime_error"))

PublicKey_operator_minus(pk, other) ==
    Bind(PublicKey_operator_neg(other), LAMBDA negated :
    PublicKey_operator_plus(pk, negated))

\* operator-, tabulated once over the PublicKey objects
MinusTable ==
    [pk \in PublicKeys |-> [other \in PublicKeys |-> PublicKey_operator_minus(pk, other)]]

PublicKey_sub(pk, other) == MinusTable[pk][other]

combine(pubkeys) ==
    IF pubkeys = <<>> THEN Raise("invalid_argument")
    ELSE Bind(parse_all(pubkeys), LAMBDA parsed_keys :
         Bind(ec_pubkey_combine_all(parsed_keys), LAMBDA result :
         PublicKey_of(result)))

\* secp256k1_ec_pubkey_tweak_mul: refuses the scalar 0
ec_pubkey_tweak_mul(P, scalar) ==
    IF scalar = 0 THEN Raise("runtime_error") ELSE Ok(ec_mul(scalar, P))

PublicKey_tweak_mul(pk, scalar) ==
    Bind(parse_or_raise(pk), LAMBDA parsed :
    Bind(ec_pubkey_tweak_mul(parsed, scalar % CURVE_ORDER), LAMBDA product :
    PublicKey_of(product)))

\* PublicKey::mult(const PrivateKey&) = tweak_mul(scalar.raw_value()), tabulated once
\* over the PublicKey and PrivateKey objects
MultTable ==
    [pk \in PublicKeys |-> [scalar \in Scalars |-> PublicKey_tweak_mul(pk, scalar)]]

mult(pk, scalar) == MultTable[pk][scalar]

\* the parsed internal representation, which operator== and operator< compare
to_data(pk) == ec_pubkey_parse(pk.point_data)

PublicKey_eq(pk, other) == to_data(pk) = to_data(other)

-----------------------------------------------------------------------------
(* Random source.  One draw of generate_random_key: whether RAND_bytes        *)
(* succeeded, and the KEY_BYTES bytes that end up in random_bytes (from       *)
(* RAND_bytes, or from the mt19937 fallback when it failed).                  *)

KeyByteStrings == [1 .. KEY_BYTES -> Bytes]

RandomDraws == [secure : BOOLEAN, bytes : KeyByteStrings]

\* the draws of a working RAND_bytes that the session enumerates
SessionDraws == {draw \in RandomDraws : draw.secure /\ BytesToInt(draw.bytes) <= MaxDraw}

generate_random_key(draw) == PrivateKey_bytes(draw.bytes)

PrivateKey_random(draw) == generate_random_key(draw)

-----------------------------------------------------------------------------
(* SHA-256.  The member H of the family maps a byte string to KEY_BYTES       *)
(* bytes: h := iv; for each byte b: h := (h * mul + b + 1) mod 2^bits.        *)
(* Every operation that hashes takes H as its first parameter; the actions    *)
(* pass the variable salt.                                                    *)

Salts == [iv : 0 .. MaxSalt, mul : {3, 5}]

RECURSIVE sha256_fold(_, _, _)
sha256_fold(H, h, data) ==
    IF data = <<>> THEN h
    ELSE sha256_fold(H, (h * H.mul + Head(data) + 1) % (BYTE_MOD ^ KEY_BYTES), Tail(data))

sha256(H, data) == IntToBytes(sha256_fold(H, H.iv, data), KEY_BYTES)

\* the bytes of a string of hex digits (ASCII)
CharCode(c) == 48 + DigitVal(c)

StringBytes(str) == [i \in 1 .. Len(str) |-> CharCode(str[i])]

-----------------------------------------------------------------------------
(* b_dhke: hash-to-curve *)

\* the secret strings of the model, as their bytes
Secrets == {<<>>} \cup {<<b>> : b \in 0 .. MaxSecret}

\* "Secp256k1_HashToCurve_Cashu_"
DOMAIN_SEPARATOR ==
    <<83, 101, 99, 112, 50, 53, 54, 107, 49, 95, 72, 97, 115, 104,
      84, 111, 67, 117, 114, 118, 101, 95, 67, 97, 115, 104, 117, 95>>

uint32_to_le_bytes(value) ==
    <<value % BYTE_MOD, (value \div BYTE_MOD) % BYTE_MOD,
      (value \div (BYTE_MOD * BYTE_MOD)) % BYTE_MOD,
      (value \div (BYTE_MOD * BYTE_MOD * BYTE_MOD)) % BYTE_MOD>>

\* a try block that builds the point with the prefix 0x03
try_point_odd(hash_output, otherwise) ==
    IF PublicKey_bytes(<<3>> \o hash_output, FALSE).ok
    THEN PublicKey_bytes(<<3>> \o hash_output, FALSE)
    ELSE otherwise

\* try { return PublicKey(0x02 || hash_output) } catch (...) { otherwise }
try_point(hash_output, otherwise) ==
    IF PublicKey_bytes(<<2>> \o hash_output, FALSE).ok
    THEN PublicKey_bytes(<<2>> \o hash_output, FALSE)
    ELSE otherwise

RECURSIVE hash_to_curve_loop(_, _, _)
\* the while loop of hash_to_curve from the given counter on
hash_to_curve_loop(H, msg_to_hash, counter) ==
    IF ~(counter < HTC_MAX_ITER) THEN Raise("runtime_error")
    ELSE try_point(sha256(H, msg_to_hash \o uint32_to_le_bytes(counter)),
                   hash_to_curve_loop(H, msg_to_hash, counter + 1))

\* hash_to_curve(const vector<uint8_t>&)
hash_to_curve_bytes(H, message) ==
    hash_to_curve_loop(H, sha256(H, DOMAIN_SEPARATOR \o message), 0)

\* hash_to_curve_bytes, tabulated once for the secrets of the model
HashToCurve == [H \in Salts |-> [message \in Secrets |-> hash_to_curve_bytes(H, message)]]

\* hash_to_curve(const string&): the bytes of the string are hashed
hash_to_curve(H, message) == HashToCurve[H][message]

RECURSIVE hash_to_curve_deprecated_loop(_, _, _)
\* the while (true) loop of hash_to_curve_deprecated.  Every value of msg_to_hash
\* after the first is a hash output, so after more iterations than there are hash
\* outputs a value has repeated and the loop never ends.
hash_to_curve_deprecated_loop(H, msg_to_hash, iterations) ==
    IF iterations > BYTE_MOD ^ KEY_BYTES THEN Diverge
    ELSE try_point(sha256(H, msg_to_hash),
                   hash_to_curve_deprecated_loop(H, sha256(H, msg_to_hash), iterations + 1))

\* hash_to_curve_deprecated_loop, tabulated once for the secrets of the model
HashToCurveDeprecated ==
    [H \in Salts |-> [message \in Secrets |-> hash_to_curve_deprecated_loop(H, message, 0)]]

hash_to_curve_deprecated(H, message) == HashToCurveDeprecated[H][message]

-----------------------------------------------------------------------------
(* b_dhke: DLEQ *)

\* the part of e_string one key contributes: the lowercase hex of its uncompressed
\* serialization, as bytes
e_string_part(pk) ==
    Bind(PublicKey_serialize(pk, FALSE), LAMBDA uncompressed :
    Ok(StringBytes(bytes_to_hex(uncompressed))))

\* e_string_part, tabulated once over the PublicKey objects
EStringTable == [pk \in PublicKeys |-> e_string_part(pk)]

hash_e(H, R1, R2, A, C_p) ==
    Bind(EStringTable[R1], LAMBDA u1 :
    Bind(EStringTable[R2], LAMBDA u2 :
    Bind(EStringTable[A], LAMBDA u3 :
    Bind(EStringTable[C_p], LAMBDA u4 :
    Ok(sha256(H, u1 \o u2 \o u3 \o u4))))))

\* the statements of step2_bob_dleq after p is set
step2_bob_dleq_with(H, B_p, a_p, p) ==
    Bind(pubkey(p), LAMBDA R1 :
    Bind(mult(B_p, p), LAMBDA R2 :
    Bind(mult(B_p, a_p), LAMBDA C_p :
    Bind(pubkey(a_p), LAMBDA A :
    Bind(hash_e(H, R1, R2, A, C_p), LAMBDA e_bytes :
    Bind(PrivateKey_bytes(e_bytes), LAMBDA e_p :
    Bind(tweak_mul(a_p, e_p), LAMBDA a_times_e :
    Bind(tweak_add(p, a_times_e), LAMBDA s_p :
    Ok(<<e_p, s_p>>)))))))))

\* "PrivateKey p;" draws a random key (draw1) whether or not p_bytes is given;
\* with p_bytes empty a second key is drawn (draw2) and assigned to p
step2_bob_dleq(H, B_p, a_p, p_bytes, draw1, draw2) ==
    Bind(PrivateKey_random(draw1), LAMBDA p0 :
    Bind(IF p_bytes # <<>> THEN PrivateKey_bytes(p_bytes) ELSE PrivateKey_random(draw2),
         LAMBDA p :
    step2_bob_dleq_with(H, B_p, a_p, p)))

alice_verify_dleq(H, B_p, C_p, e_p, s_p, A) ==
    Bind(pubkey(s_p), LAMBDA s_times_G :
    Bind(mult(A, e_p), LAMBDA e_times_A :
    Bind(PublicKey_sub(s_times_G, e_times_A), LAMBDA R1 :
    Bind(mult(B_p, s_p), LAMBDA s_times_B_ :
    Bind(mult(C_p, e_p), LAMBDA e_times_C_ :
    Bind(PublicKey_sub(s_times_B_, e_times_C_), LAMBDA R2 :
    Bind(hash_e(H, R1, R2, A, C_p), LAMBDA computed_e :
    Ok(computed_e = PrivateKey_serialize(e_p)))))))))

-----------------------------------------------------------------------------
(* b_dhke: the protocol steps *)

\* a step1_alice that sends Y itself
step1_alice_unblinded(H, secret_msg, blinding_factor, draw) ==
    Bind(hash_to_curve(H, secret_msg), LAMBDA Y :
    Bind(IF blinding_factor # NoKey THEN Ok(blinding_factor) ELSE PrivateKey_random(draw),
         LAMBDA r_p :
    Ok(<<Y, r_p>>)))

\* blinding_factor = NoKey stands for std::nullopt: a random key is drawn
step1_alice(H, secret_msg, blinding_factor, draw) ==
    Bind(hash_to_curve(H, secret_msg), LAMBDA Y :
    Bind(IF blinding_factor # NoKey THEN Ok(blinding_factor) ELSE PrivateKey_random(draw),
         LAMBDA r_p :
    Bind(pubkey(r_p), LAMBDA r_times_G :
    Bind(PublicKey_add(Y, r_times_G), LAMBDA B_p :
    Ok(<<B_p, r_p>>)))))

\* step1_alice_deprecated after Y = hash_to_curve_deprecated(message_bytes) returned
step1_alice_deprecated_blind(Y, blinding_factor, draw) ==
    Bind(IF blinding_factor # NoKey THEN Ok(blinding_factor) ELSE PrivateKey_random(draw),
         LAMBDA r_p :
    Bind(pubkey(r_p), LAMBDA r_times_G :
    Bind(PublicKey_add(Y, r_times_G), LAMBDA B_p :
    Ok(<<B_p, r_p>>))))

step2_bob(H, B_p, a_p, draw1, draw2) ==
    Bind(mult(B_p, a_p), LAMBDA C_p :
    Bind(step2_bob_dleq(H, B_p, a_p, <<>>, draw1, draw2), LAMBDA dleq :
    Ok(<<C_p, dleq[1], dleq[2]>>)))

\* a step3_alice that adds r*A instead of subtracting it
step3_alice_adding(C_p, r_p, A) ==
    Bind(mult(A, r_p), LAMBDA r_times_A :
    PublicKey_add(C_p, r_times_A))

step3_alice(C_p, r_p, A) ==
    Bind(mult(A, r_p), LAMBDA r_times_A :
    PublicKey_sub(C_p, r_times_A))

\* the outcome of one of the two attempts of a verification, for the record of
\* which attempts a call made
Attempt(variant, res) ==
    [variant |-> variant,
     result |-> IF ~res.ok THEN res.err ELSE IF res.val THEN "true" ELSE "false"]

Traced(res, attempts) ==
    [ok |-> res.ok, val |-> res.val, err |-> res.err, attempts |-> attempts]

\* a retry that evaluates the deprecated variant whatever the current one returned
retry_always(valid, deprecated) ==
    IF ~valid.ok
    THEN Traced(valid, <<Attempt("current", valid)>>)
    ELSE Traced(IF valid.val THEN valid ELSE deprecated,
                <<Attempt("current", valid), Attempt("legacy", deprecated)>>)

\* bool valid = <current>; if (!valid) { valid = <deprecated>; } return valid;
retry_deprecated(valid, deprecated) ==
    IF ~valid.ok \/ valid.val
    THEN Traced(valid, <<Attempt("current", valid)>>)
    ELSE Traced(deprecated, <<Attempt("current", valid), Attempt("legacy", deprecated)>>)

verify_deprecated(H, a_p, C_p, secret_msg) ==
    Bind(hash_to_curve_deprecated(H, secret_msg), LAMBDA Y :
    Bind(mult(Y, a_p), LAMBDA a_times_Y :
    Ok(PublicKey_eq(C_p, a_times_Y))))

\* a verify without the backwards-compatibility block
verify_current_only(H, a_p, C_p, secret_msg) ==
    retry_deprecated(
        Bind(hash_to_curve(H, secret_msg), LAMBDA Y :
        Bind(mult(Y, a_p), LAMBDA a_times_Y :
        Ok(PublicKey_eq(C_p, a_times_Y)))),
        Ok(FALSE))

verify(H, a_p, C_p, secret_msg) ==
    retry_deprecated(
        Bind(hash_to_curve(H, secret_msg), LAMBDA Y :
        Bind(mult(Y, a_p), LAMBDA a_times_Y :
        Ok(PublicKey_eq(C_p, a_times_Y)))),
        verify_deprecated(H, a_p, C_p, secret_msg))

\* C' = C + r*A; B' = Y + r*G; alice_verify_dleq(B', C', e, s, A)
carol_reblind_and_verify(H, Y, r_p, C_p, e_p, s_p, A) ==
    Bind(mult(A, r_p), LAMBDA r_times_A :
    Bind(PublicKey_add(C_p, r_times_A), LAMBDA Cb :
    Bind(pubkey(r_p), LAMBDA r_times_G :
    Bind(PublicKey_add(Y, r_times_G), LAMBDA Bb :
    alice_verify_dleq(H, Bb, Cb, e_p, s_p, A)))))

carol_verify_dleq_deprecated(H, secret_msg, r_p, C_p, e_p, s_p, A) ==
    Bind(hash_to_curve_deprecated(H, secret_msg), LAMBDA Y :
    carol_reblind_and_verify(H, Y, r_p, C_p, e_p, s_p, A))

carol_verify_dleq(H, secret_msg, r_p, C_p, e_p, s_p, A) ==
    retry_deprecated(
        Bind(hash_to_curve(H, secret_msg), LAMBDA Y :
        carol_reblind_and_verify(H, Y, r_p, C_p, e_p, s_p, A)),
        carol_verify_dleq_deprecated(H, secret_msg, r_p, C_p, e_p, s_p, A))

-----------------------------------------------------------------------------
(* keys: strings.  A std::string is the sequence of its characters.           *)

DecDigits == <<"0", "1", "2", "3", "4", "5", "6", "7", "8", "9">>

IsDigit(c) == \E d \in 1 .. 10 : DecDigits[d] = c

DecVal(c) == (CHOOSE d \in 1 .. 10 : DecDigits[d] = c) - 1

RECURSIVE to_string(_)
\* std::to_string of a non-negative integer
to_string(value) ==
    IF value < 10 THEN <<DecDigits[value + 1]>>
    ELSE to_string(value \div 10) \o <<DecDigits[(value % 10) + 1]>>

\* the ASCII code of a character of the model's strings
Ascii(c) ==
    CASE IsDigit(c) -> 48 + DecVal(c)
      [] c = "'" -> 39
      [] c = "+" -> 43
      [] c = "-" -> 45
      [] c = "." -> 46
      [] c = "/" -> 47
      [] c = "a" -> 97
      [] c = "b" -> 98
      [] c = "m" -> 109
      [] c = "v" -> 118
      [] c = "x" -> 120

\* the bytes of a std::string as SHA256 reads them
AsciiBytes(str) == [i \in 1 .. Len(str) |-> Ascii(str[i])]

RECURSIVE DigitsPrefix(_)
\* the longest prefix of str made of decimal digits
DigitsPrefix(str) ==
    IF str = <<>> \/ ~IsDigit(Head(str)) THEN <<>>
    ELSE <<Head(str)>> \o DigitsPrefix(Tail(str))

RECURSIVE DecimalValue(_)
DecimalValue(digits) ==
    IF digits = <<>> THEN 0
    ELSE DecimalValue(SubSeq(digits, 1, Len(digits) - 1)) * 10 + DecVal(digits[Len(digits)])

\* std::stoi / std::stoul on a string without leading blanks: an optional sign, then
\* the longest run of digits; what follows the digits is ignored, and a string
\* without a digit at that place raises invalid_argument
stoi(str) ==
    LET signed == str # <<>> /\ Head(str) \in {"+", "-"}
        digits == DigitsPrefix(IF signed THEN Tail(str) ELSE str)
    IN IF digits = <<>> THEN Raise("invalid_argument")
       ELSE IF signed /\ Head(str) = "-" THEN Ok(0 - DecimalValue(digits))
       ELSE Ok(DecimalValue(digits))

RECURSIVE getline_segments(_, _)
\* the segments that while (getline(ss, segment, delim)) reads from str
getline_segments(str, delim) ==
    IF str = <<>> THEN <<>>
    ELSE LET ends == {i \in 1 .. Len(str) : str[i] = delim}
         IN IF ends = {} THEN <<str>>
            ELSE LET first == CHOOSE i \in ends : \A j \in ends : i <= j
                 IN <<SubSeq(str, 1, first - 1)>>
                    \o getline_segments(SubSeq(str, first + 1, Len(str)), delim)

-----------------------------------------------------------------------------
(* keys: versions *)

VersionTuple(maj, min, pat) == [major |-> maj, minor |-> min, patch |-> pat]

\* a comparison that looks at the minor number only
VersionTuple_less_minor(v, other) == v.minor < other.minor

\* VersionTuple::operator<
VersionTuple_less(v, other) ==
    IF v.major # other.major THEN v.major < other.major
    ELSE IF v.minor # other.minor THEN v.minor < other.minor
    ELSE v.patch < other.patch

RECURSIVE parse_version_parts(_)
\* the loop of parse_version: stoi of every segment that is not empty
parse_version_parts(segments) ==
    IF segments = <<>> THEN Ok(<<>>)
    ELSE IF Head(segments) = <<>> THEN parse_version_parts(Tail(segments))
    ELSE Bind(stoi(Head(segments)), LAMBDA part :
         Bind(parse_version_parts(Tail(segments)), LAMBDA parts :
         Ok(<<part>> \o parts)))

parse_version(version_str) ==
    LET clean_version == IF version_str # <<>> /\ Head(version_str) = "v"
                         THEN Tail(version_str) ELSE version_str
    IN Bind(parse_version_parts(getline_segments(clean_version, ".")), LAMBDA parts :
       Ok(VersionTuple(IF Len(parts) > 0 THEN parts[1] ELSE 0,
                       IF Len(parts) > 1 THEN parts[2] ELSE 0,
                       IF Len(parts) > 2 THEN parts[3] ELSE 0)))

-----------------------------------------------------------------------------
(* keys: BIP32.  A 32-bit index is 4 bytes of the model; HMAC-SHA512 is two   *)
(* keyed members of the hash family, one for each half of its output.         *)

\* 2^32 and the hardened bit 0x80000000 on the model's byte scale
UINT32_MOD == BYTE_MOD * BYTE_MOD * BYTE_MOD * BYTE_MOD

HARDENED_BIT == UINT32_MOD \div 2

hmac_sha512(H, key, data) ==
    IntToBytes(sha256_fold(H, H.iv, <<54>> \o key \o data), KEY_BYTES)
    \o IntToBytes(sha256_fold(H, H.iv, <<92>> \o key \o data), KEY_BYTES)

uint32_to_big_endian(value) ==
    <<(value \div (BYTE_MOD * BYTE_MOD * BYTE_MOD)) % BYTE_MOD,
      (value \div (BYTE_MOD * BYTE_MOD)) % BYTE_MOD,
      (value \div BYTE_MOD) % BYTE_MOD,
      value % BYTE_MOD>>

\* "Bitcoin seed"
BITCOIN_SEED == <<66, 105, 116, 99, 111, 105, 110, 32, 115, 101, 101, 100>>

\* one pass of the loop of parse_path on a segment that is not empty
parse_path_segment(segment) ==
    LET hardened == segment[Len(segment)] = "'"
        number == IF hardened THEN SubSeq(segment, 1, Len(segment) - 1) ELSE segment
    IN Bind(stoi(number), LAMBDA value :
       LET index == value % UINT32_MOD
       IN Ok(IF hardened /\ index < HARDENED_BIT THEN index + HARDENED_BIT ELSE index))

RECURSIVE parse_path_segments(_)
parse_path_segments(segments) ==
    IF segments = <<>> THEN Ok(<<>>)
    ELSE IF Head(segments) = <<>> THEN parse_path_segments(Tail(segments))
    ELSE Bind(parse_path_segment(Head(segments)), LAMBDA index :
         Bind(parse_path_segments(Tail(segments)), LAMBDA indices :
         Ok(<<index>> \o indices)))

parse_path(path) ==
    IF path = <<>> \/ Head(path) # "m" THEN Raise("invalid_argument")
    ELSE parse_path_segments(getline_segments(Tail(path), "/"))

\* returns the pair <<child key, child chain code>>
derive_child_key_with_chain_code(H, parent_key, parent_chain_code, index) ==
    LET parent_bytes == PrivateKey_serialize(parent_key)
        index_bytes == uint32_to_big_endian(index)
        hardened == index >= HARDENED_BIT
    IN Bind(IF hardened THEN Ok(<<0>> \o parent_bytes)
            ELSE Bind(pubkey(parent_key), LAMBDA parent_pubkey :
                 PublicKey_serialize(parent_pubkey, TRUE)),
            LAMBDA hmac_input :
       LET hmac_result == hmac_sha512(H, parent_chain_code, hmac_input \o index_bytes)
           scalar == BytesToInt(SubSeq(hmac_result, 1, KEY_BYTES))
           child_chain_code == SubSeq(hmac_result, KEY_BYTES + 1, 2 * KEY_BYTES)
       IN Bind(PrivateKey_int((parent_key + scalar) % CURVE_ORDER), LAMBDA child :
          Ok(<<child, child_chain_code>>)))

RECURSIVE derive_levels_master_chain(_, _, _, _)
\* a loop that keys every level with the chain code it started from
derive_levels_master_chain(H, current_key, current_chain_code, indices) ==
    IF indices = <<>> THEN Ok(current_key)
    ELSE Bind(derive_child_key_with_chain_code(H, current_key, current_chain_code,
                                               Head(indices)),
              LAMBDA result :
         derive_levels_master_chain(H, result[1], current_chain_code, Tail(indices)))

RECURSIVE derive_levels(_, _, _, _)
\* the loop of get_privkey_from_path over the indices
derive_levels(H, current_key, current_chain_code, indices) ==
    IF indices = <<>> THEN Ok(current_key)
    ELSE Bind(derive_child_key_with_chain_code(H, current_key, current_chain_code,
                                               Head(indices)),
              LAMBDA result :
         derive_levels(H, result[1], result[2], Tail(indices)))

\* BIP32Helper(mnemonic).get_privkey_from_path(path): seed_ is the mnemonic's bytes
get_privkey_from_path(H, mnemonic, path) ==
    Bind(parse_path(path), LAMBDA indices :
    LET master_result == hmac_sha512(H, BITCOIN_SEED, AsciiBytes(mnemonic))
    IN Bind(PrivateKey_bytes(SubSeq(master_result, 1, KEY_BYTES)), LAMBDA master_key :
       derive_levels(H, master_key, SubSeq(master_result, KEY_BYTES + 1, 2 * KEY_BYTES),
                     indices)))

RECURSIVE regex_levels(_)
\* str matches (/\d+'?)*
regex_levels(str) ==
    \/ str = <<>>
    \/ /\ Head(str) = "/"
       /\ DigitsPrefix(Tail(str)) # <<>>
       /\ LET rest == SubSeq(str, 2 + Len(DigitsPrefix(Tail(str))), Len(str))
          IN \/ regex_levels(rest)
             \/ rest # <<>> /\ Head(rest) = "'" /\ regex_levels(Tail(rest))

\* BIP32Helper::is_valid_path: regex_match(path, ^m(/\d+'?)*$)
is_valid_path(path) ==
    IF path = <<>> \/ Head(path) # "m" THEN FALSE
    ELSE regex_levels(Tail(path))

-----------------------------------------------------------------------------
(* keys: derivation.  An unordered_map is the function from its keys to its   *)
(* values.                                                                    *)

EmptyMap == [amount \in {} |-> NoKey]

\* a store under the number of entries so far instead of under the key
MapPut_indexed(map, key, value) ==
    [k \in DOMAIN map \cup {Cardinality(DOMAIN map)} |->
        IF k = Cardinality(DOMAIN map) THEN value ELSE map[k]]

\* a store that keeps the value a key already has
MapPut_first(map, key, value) ==
    [k \in DOMAIN map \cup {key} |-> IF k \in DOMAIN map THEN map[k] ELSE value]

\* result[key] = value
MapPut(map, key, value) ==
    [k \in DOMAIN map \cup {key} |-> IF k = key THEN value ELSE map[k]]

RECURSIVE derive_keys_loop(_, _, _, _, _, _)
\* the loop of derive_keys from index i on
derive_keys_loop(H, mnemonic, derivation_path, amounts, i, result) ==
    IF ~(i < Len(amounts)) THEN Ok(result)
    ELSE Bind(get_privkey_from_path(H, mnemonic,
                  derivation_path \o <<"/">> \o to_string(i) \o <<"'">>),
              LAMBDA key :
         derive_keys_loop(H, mnemonic, derivation_path, amounts, i + 1,
                          MapPut(result, amounts[i + 1], key)))

derive_keys(H, mnemonic, derivation_path, amounts) ==
    derive_keys_loop(H, mnemonic, derivation_path, amounts, 0, EmptyMap)

\* a hash input with a separator between its parts
combined_of_separated(seed, derivation_path, i) ==
    seed \o <<".">> \o derivation_path \o <<".">> \o to_string(i)

\* string combined = seed + derivation_path + to_string(i)
combined_of(seed, derivation_path, i) == seed \o derivation_path \o to_string(i)

RECURSIVE derive_keys_deprecated_pre_0_15_loop(_, _, _, _, _, _)
derive_keys_deprecated_pre_0_15_loop(H, seed, amounts, derivation_path, i, result) ==
    IF ~(i < Len(amounts)) THEN Ok(result)
    ELSE Bind(PrivateKey_bytes(sha256(H, AsciiBytes(combined_of(seed, derivation_path, i)))),
              LAMBDA key :
         derive_keys_deprecated_pre_0_15_loop(H, seed, amounts, derivation_path, i + 1,
                                              MapPut(result, amounts[i + 1], key)))

derive_keys_deprecated_pre_0_15(H, seed, amounts, derivation_path) ==
    derive_keys_deprecated_pre_0_15_loop(H, seed, amounts, derivation_path, 0, EmptyMap)

fixed_amounts == <<1, 2, 4, 8, 16, 32>>

\* the byte of a character of a hex digest: '0' .. 'f' are the bytes 0x30 .. 0x66,
\* above 0 and below the first byte of CURVE_ORDER; on the model's byte scale the
\* digit d is the byte 3 + d
encoded_hex_byte(c) == 3 + DigitVal(c)

\* the first bytes of the digest itself instead of the bytes of its hex text
insecure_key_bytes_digest(H, combined) ==
    SubSeq(sha256(H, AsciiBytes(combined)), 1, KEY_BYTES)

\* steps 1 to 4 of the loop body, and the padding: the bytes handed to PrivateKey
insecure_key_bytes(H, combined) ==
    LET hex_digest == bytes_to_hex(sha256(H, AsciiBytes(combined)))
        encoded_hex == [j \in 1 .. Len(hex_digest) |-> encoded_hex_byte(hex_digest[j])]
        taken == IF KEY_BYTES < Len(encoded_hex) THEN KEY_BYTES ELSE Len(encoded_hex)
    IN [j \in 1 .. KEY_BYTES |-> IF j <= taken THEN encoded_hex[j] ELSE 0]

RECURSIVE derive_keys_insecure_loop(_, _, _, _, _)
derive_keys_insecure_loop(H, seed, derivation_path, i, result) ==
    IF ~(i < Len(fixed_amounts)) THEN Ok(result)
    ELSE Bind(PrivateKey_bytes(insecure_key_bytes(H, combined_of(seed, derivation_path, i))),
              LAMBDA key :
         derive_keys_insecure_loop(H, seed, derivation_path, i + 1,
                                   MapPut(result, fixed_amounts[i + 1], key)))

derive_keys_backwards_compatible_insecure_pre_0_12(H, seed, derivation_path) ==
    derive_keys_insecure_loop(H, seed, derivation_path, 0, EmptyMap)

derive_keys_version_aware(H, seed_or_mnemonic, derivation_path, amounts, version) ==
    Bind(parse_version(version), LAMBDA version_tuple :
    IF VersionTuple_less(version_tuple, VersionTuple(0, 12, 0))
    THEN derive_keys_backwards_compatible_insecure_pre_0_12(H, seed_or_mnemonic,
                                                            derivation_path)
    ELSE IF VersionTuple_less(version_tuple, VersionTuple(0, 15, 0))
    THEN derive_keys_deprecated_pre_0_15(H, seed_or_mnemonic, amounts, derivation_path)
    ELSE derive_keys(H, seed_or_mnemonic, derivation_path, amounts))

-----------------------------------------------------------------------------
(* keys: keyset identifiers.  The unordered_map argument is the sequence of   *)
(* its <<amount, PublicKey>> pairs in the order in which it iterates.         *)

Base64Digits == <<"A", "B", "C", "D", "E", "F", "G", "H">>

\* one pass of the loop of bytes_to_base64, on the bytes from position i (0-based)
base64_group(bytes, i) ==
    LET val == bytes[i + 1] * BYTE_MOD * BYTE_MOD
               + (IF i + 1 < Len(bytes) THEN bytes[i + 2] * BYTE_MOD ELSE 0)
               + (IF i + 2 < Len(bytes) THEN bytes[i + 3] ELSE 0)
    IN << Base64Digits[((val \div (B64_BASE * B64_BASE * B64_BASE)) % B64_BASE) + 1],
          Base64Digits[((val \div (B64_BASE * B64_BASE)) % B64_BASE) + 1],
          IF i + 1 < Len(bytes) THEN Base64Digits[((val \div B64_BASE) % B64_BASE) + 1]
          ELSE "=",
          IF i + 2 < Len(bytes) THEN Base64Digits[(val % B64_BASE) + 1] ELSE "=" >>

RECURSIVE bytes_to_base64_from(_, _)
bytes_to_base64_from(bytes, i) ==
    IF ~(i < Len(bytes)) THEN <<>>
    ELSE base64_group(bytes, i) \o bytes_to_base64_from(bytes, i + 3)

bytes_to_base64(bytes) == bytes_to_base64_from(bytes, 0)

\* std::string::substr(0, count)
substr0(str, count) == SubSeq(str, 1, IF count < Len(str) THEN count ELSE Len(str))

\* PublicKey::operator<: the vectors to_data() compared lexicographically
PublicKey_less(pk, other) ==
    \/ to_data(pk)[1] < to_data(other)[1]
    \/ to_data(pk)[1] = to_data(other)[1] /\ to_data(pk)[2] < to_data(other)[2]

\* operator< of std::pair<cpp_int, PublicKey>
pair_less(p, q) ==
    \/ p[1] < q[1]
    \/ ~(q[1] < p[1]) /\ PublicKey_less(p[2], q[2])

\* a sort that leaves the sequence as it is
sort_pairs_unsorted(pairs) == pairs

RECURSIVE sort_pairs(_)
\* std::sort(sorted_keys.begin(), sorted_keys.end())
sort_pairs(pairs) ==
    IF pairs = <<>> THEN <<>>
    ELSE LET least == CHOOSE i \in 1 .. Len(pairs) :
                          \A j \in 1 .. Len(pairs) : ~pair_less(pairs[j], pairs[i])
         IN <<pairs[least]>>
            \o sort_pairs([j \in 1 .. Len(pairs) - 1 |->
                              IF j < least THEN pairs[j] ELSE pairs[j + 1]])

RECURSIVE pubkeys_concat_bytes(_)
\* the loop of derive_keyset_id over sorted_keys
pubkeys_concat_bytes(sorted_keys) ==
    IF sorted_keys = <<>> THEN Ok(<<>>)
    ELSE Bind(PublicKey_serialize(Head(sorted_keys)[2], TRUE), LAMBDA serialized :
         Bind(pubkeys_concat_bytes(Tail(sorted_keys)), LAMBDA rest :
         Ok(serialized \o rest)))

derive_keyset_id(H, keys) ==
    Bind(pubkeys_concat_bytes(sort_pairs(keys)), LAMBDA pubkeys_concat :
    LET hex_hash == bytes_to_hex(sha256(H, pubkeys_concat))
    IN Ok(<<"0", "0">> \o substr0(hex_hash, KEYSET_ID_HEX_CHARS)))

RECURSIVE pubkeys_concat_hex(_)
\* the loop of derive_keyset_id_deprecated over sorted_keys
pubkeys_concat_hex(sorted_keys) ==
    IF sorted_keys = <<>> THEN Ok(<<>>)
    ELSE Bind(PublicKey_serialize(Head(sorted_keys)[2], TRUE), LAMBDA serialized :
         Bind(pubkeys_concat_hex(Tail(sorted_keys)), LAMBDA rest :
         Ok(bytes_to_hex(serialized) \o rest)))

derive_keyset_id_deprecated(H, keys) ==
    Bind(pubkeys_concat_hex(sort_pairs(keys)), LAMBDA pubkeys_concat :
    LET base64_hash == bytes_to_base64(sha256(H, StringBytes(pubkeys_concat)))
    IN Ok(substr0(base64_hash, KEYSET_ID_B64_CHARS)))

\* a gate that always selects the current identifier
derive_keyset_id_version_aware_current(H, keys, version) ==
    Bind(parse_version(version), LAMBDA version_tuple : derive_keyset_id(H, keys))

derive_keyset_id_version_aware(H, keys, version) ==
    Bind(parse_version(version), LAMBDA version_tuple :
    IF VersionTuple_less(version_tuple, VersionTuple(0, 15, 0))
    THEN derive_keyset_id_deprecated(H, keys)
    ELSE derive_keyset_id(H, keys))

-----------------------------------------------------------------------------
(* The protocol session: a holder blinds a secret, the issuer signs, the      *)
(* holder unblinds, and the checks are run on the values of the session; the  *)
(* checks are also called directly on arbitrary well-formed arguments.        *)

\* the outcome res of operation op
Outcome(op, res) ==
    [op |-> op, ok |-> res.ok, val |-> res.val, err |-> res.err, attempts |-> <<>>]

OutcomeTraced(op, res) ==
    [op |-> op, ok |-> res.ok, val |-> res.val, err |-> res.err, attempts |-> res.attempts]

Init ==
    /\ salt \in Salts
    /\ pc = "idle"
    /\ secret = <<>>
    /\ a = NoKey
    /\ r = NoKey
    /\ B_ = NoPoint
    /\ C_ = NoPoint
    /\ e = NoKey
    /\ s = NoKey
    /\ C = NoPoint
    /\ input = NoInput
    /\ ret = NoRet
    /\ htc_msg_to_hash = <<>>
    /\ htc_counter = 0
    /\ ctx = [state |-> "uninit", ptr |-> NullContext, created |-> 0]
    /\ thread = [t \in Threads |->
                    [pc |-> "idle", call |-> NoInput, ptr |-> NullContext, ret |-> NoRet]]

Step1Alice ==
    /\ pc = "idle"
    /\ \E secret_msg \in Secrets, blinding_factor \in Scalars \cup {NoKey}, draw \in SessionDraws :
          LET res == step1_alice(salt, secret_msg, blinding_factor, draw)
          IN /\ secret' = secret_msg
             /\ input' = [op |-> "step1_alice", blinding_factor |-> blinding_factor]
             /\ ret' = Outcome("step1_alice", res)
             /\ IF res.ok
                THEN B_' = res.val[1] /\ r' = res.val[2] /\ pc' = "blinded"
                ELSE B_' = B_ /\ r' = r /\ pc' = "failed"
    /\ UNCHANGED <<salt, a, C_, e, s, C, htc_msg_to_hash, htc_counter, ctx, thread>>

Step2Bob ==
    /\ pc = "blinded"
    /\ \E a_p \in Scalars, draw1 \in SessionDraws, draw2 \in SessionDraws :
          LET res == step2_bob(salt, B_, a_p, draw1, draw2)
          IN /\ a' = a_p
             /\ input' = [op |-> "step2_bob"]
             /\ ret' = Outcome("step2_bob", res)
             /\ IF res.ok
                THEN C_' = res.val[1] /\ e' = res.val[2] /\ s' = res.val[3] /\ pc' = "signed"
                ELSE C_' = C_ /\ e' = e /\ s' = s /\ pc' = "failed"
    /\ UNCHANGED <<salt, secret, r, B_, C, htc_msg_to_hash, htc_counter, ctx, thread>>

\* the issuer signs with a nonce of its choice: C' = B'.mult(a) and
\* step2_bob_dleq(B', a, p_bytes)
Step2BobDleq ==
    /\ pc = "blinded"
    /\ \E a_p \in Scalars, p_bytes \in KeyByteStrings, draw1 \in SessionDraws :
          LET res == Bind(mult(B_, a_p), LAMBDA C_p :
                     Bind(step2_bob_dleq(salt, B_, a_p, p_bytes, draw1, draw1), LAMBDA dleq :
                     Ok(<<C_p, dleq[1], dleq[2]>>)))
          IN /\ a' = a_p
             /\ input' = [op |-> "step2_bob_dleq", p_bytes |-> p_bytes, draw |-> draw1]
             /\ ret' = Outcome("step2_bob_dleq", res)
             /\ IF res.ok
                THEN C_' = res.val[1] /\ e' = res.val[2] /\ s' = res.val[3] /\ pc' = "signed"
                ELSE C_' = C_ /\ e' = e /\ s' = s /\ pc' = "failed"
    /\ UNCHANGED <<salt, secret, r, B_, C, htc_msg_to_hash, htc_counter, ctx, thread>>

\* the holder checks the proof it received: alice_verify_dleq(B', C', e, s, A)
AliceVerifyDleq ==
    /\ pc = "signed"
    /\ ret' = Outcome("alice_verify_dleq",
                      Bind(pubkey(a), LAMBDA A : alice_verify_dleq(salt, B_, C_, e, s, A)))
    /\ input' = [op |-> "alice_verify_dleq", s |-> s]
    /\ pc' = "alice_checked"
    /\ UNCHANGED <<salt, secret, a, r, B_, C_, e, s, C, htc_msg_to_hash, htc_counter, ctx, thread>>

\* the proof reaches the holder with its response replaced by another scalar
AliceVerifyDleqTampered ==
    /\ pc = "signed"
    /\ \E s_p \in Scalars \ {s} :
          /\ ret' = Outcome("alice_verify_dleq",
                            Bind(pubkey(a), LAMBDA A :
                            alice_verify_dleq(salt, B_, C_, e, s_p, A)))
          /\ input' = [op |-> "alice_verify_dleq", s |-> s_p]
    /\ pc' = "tamper_checked"
    /\ UNCHANGED <<salt, secret, a, r, B_, C_, e, s, C, htc_msg_to_hash, htc_counter, ctx, thread>>

Step3Alice ==
    /\ pc = "signed"
    /\ LET res == Bind(pubkey(a), LAMBDA A : step3_alice(C_, r, A))
       IN /\ ret' = Outcome("step3_alice", res)
          /\ input' = [op |-> "step3_alice"]
          /\ IF res.ok THEN C' = res.val /\ pc' = "unblinded"
             ELSE C' = C /\ pc' = "failed"
    /\ UNCHANGED <<salt, secret, a, r, B_, C_, e, s, htc_msg_to_hash, htc_counter, ctx, thread>>

Verify ==
    /\ pc = "unblinded"
    /\ ret' = OutcomeTraced("verify", verify(salt, a, C, secret))
    /\ input' = [op |-> "verify"]
    /\ pc' = "verified"
    /\ UNCHANGED <<salt, secret, a, r, B_, C_, e, s, C, htc_msg_to_hash, htc_counter, ctx, thread>>

\* a third party checks the proof of the unblinded token
CarolVerifyDleq ==
    /\ pc = "unblinded"
    /\ ret' = OutcomeTraced("carol_verify_dleq",
                            Bind(pubkey(a), LAMBDA A :
                            carol_verify_dleq(salt, secret, r, C, e, s, A)))
    /\ input' = [op |-> "carol_verify_dleq"]
    /\ pc' = "carol_checked"
    /\ UNCHANGED <<salt, secret, a, r, B_, C_, e, s, C, htc_msg_to_hash, htc_counter, ctx, thread>>

Next ==
    \/ Step1Alice
    \/ Step2Bob
    \/ Step2BobDleq
    \/ AliceVerifyDleq
    \/ AliceVerifyDleqTampered
    \/ Step3Alice
    \/ Verify
    \/ CarolVerifyDleq

Spec == Init /\ [][Next]_vars

-----------------------------------------------------------------------------
(* The checks called directly on arbitrary well-formed arguments: points on   *)
(* the curve, scalars in [1, CURVE_ORDER), any secret.  Every point of the     *)
(* curve is the public key of some scalar, so A ranges over pubkey(a).         *)

CallVerify ==
    /\ pc = "idle"
    /\ \E a_p \in Scalars, C_p \in PublicKeys, secret_msg \in Secrets :
          /\ ret' = OutcomeTraced("verify", verify(salt, a_p, C_p, secret_msg))
          /\ a' = a_p
          /\ C' = C_p
          /\ secret' = secret_msg
    /\ input' = [op |-> "verify"]
    /\ pc' = "called"
    /\ UNCHANGED <<salt, r, B_, C_, e, s, htc_msg_to_hash, htc_counter, ctx, thread>>

CallAliceVerifyDleq ==
    /\ pc = "idle"
    /\ \E B_p \in PublicKeys, C_p \in PublicKeys, e_p \in Scalars, s_p \in Scalars,
          a_p \in Scalars :
          /\ ret' = Outcome("alice_verify_dleq",
                            Bind(pubkey(a_p), LAMBDA A :
                            alice_verify_dleq(salt, B_p, C_p, e_p, s_p, A)))
          /\ B_' = B_p
          /\ C_' = C_p
          /\ e' = e_p
          /\ s' = s_p
          /\ a' = a_p
    /\ input' = [op |-> "alice_verify_dleq"]
    /\ pc' = "called"
    /\ UNCHANGED <<salt, secret, r, C, htc_msg_to_hash, htc_counter, ctx, thread>>

CallCarolVerifyDleq ==
    /\ pc = "idle"
    /\ \E secret_msg \in Secrets, r_p \in Scalars, C_p \in PublicKeys, e_p \in Scalars,
          s_p \in Scalars, a_p \in Scalars :
          /\ ret' = OutcomeTraced("carol_verify_dleq",
                                  Bind(pubkey(a_p), LAMBDA A :
                                  carol_verify_dleq(salt, secret_msg, r_p, C_p, e_p, s_p, A)))
          /\ secret' = secret_msg
          /\ r' = r_p
          /\ C' = C_p
          /\ e' = e_p
          /\ s' = s_p
          /\ a' = a_p
    /\ input' = [op |-> "carol_verify_dleq"]
    /\ pc' = "called"
    /\ UNCHANGED <<salt, B_, C_, htc_msg_to_hash, htc_counter, ctx, thread>>

NextChecks ==
    \/ CallVerify
    \/ CallAliceVerifyDleq
    \/ CallCarolVerifyDleq

SpecChecks == Init /\ [][NextChecks]_vars

-----------------------------------------------------------------------------
(* The constructors called directly on arbitrary arguments *)

\* the byte strings of at most n bytes
ByteStrings(n) == UNION {[1 .. k -> Bytes] : k \in 0 .. n}

\* the characters of the strings handed to PrivateKey(string): the hex digits, the
\* letter of the "0x" prefix and a letter that is no hex digit
HexChars == {HexDigits[d] : d \in 1 .. HEX_BASE} \cup {"x", "g"}

HexStrings == UNION {[1 .. k -> HexChars] : k \in 0 .. MaxHexLen}

NewPrivateKeyBytes ==
    /\ pc = "idle"
    /\ \E key_data \in ByteStrings(MaxKeyLen) :
          /\ input' = [op |-> "PrivateKey_bytes", arg |-> key_data]
          /\ ret' = Outcome("PrivateKey_bytes", PrivateKey_bytes(key_data))
    /\ pc' = "called"
    /\ UNCHANGED <<salt, secret, a, r, B_, C_, e, s, C, htc_msg_to_hash, htc_counter, ctx, thread>>

NewPrivateKeyInt ==
    /\ pc = "idle"
    /\ \E key_value \in (0 - MaxInt) .. (CURVE_ORDER + MaxInt) :
          /\ input' = [op |-> "PrivateKey_int", arg |-> key_value]
          /\ ret' = Outcome("PrivateKey_int", PrivateKey_int(key_value))
    /\ pc' = "called"
    /\ UNCHANGED <<salt, secret, a, r, B_, C_, e, s, C, htc_msg_to_hash, htc_counter, ctx, thread>>

NewPrivateKeyHex ==
    /\ pc = "idle"
    /\ \E hex_string \in HexStrings :
          /\ input' = [op |-> "PrivateKey_hex", arg |-> hex_string]
          /\ ret' = Outcome("PrivateKey_hex", PrivateKey_hex(hex_string))
    /\ pc' = "called"
    /\ UNCHANGED <<salt, secret, a, r, B_, C_, e, s, C, htc_msg_to_hash, htc_counter, ctx, thread>>

NewPublicKey ==
    /\ pc = "idle"
    /\ \E point_data \in ByteStrings(MaxDataLen), raw \in BOOLEAN :
          /\ input' = [op |-> "PublicKey_bytes", arg |-> point_data, raw |-> raw]
          /\ ret' = Outcome("PublicKey_bytes", PublicKey_bytes(point_data, raw))
    /\ pc' = "called"
    /\ UNCHANGED <<salt, secret, a, r, B_, C_, e, s, C, htc_msg_to_hash, htc_counter, ctx, thread>>

\* PrivateKey(): one call of generate_random_key, whatever RAND_bytes reports
NewPrivateKeyRandom ==
    /\ pc = "idle"
    /\ \E draw \in RandomDraws :
          /\ input' = [op |-> "PrivateKey_random", draw |-> draw]
          /\ ret' = Outcome("PrivateKey_random", PrivateKey_random(draw))
    /\ pc' = "called"
    /\ UNCHANGED <<salt, secret, a, r, B_, C_, e, s, C, htc_msg_to_hash, htc_counter, ctx, thread>>

NextParse ==
    \/ NewPrivateKeyBytes
    \/ NewPrivateKeyInt
    \/ NewPrivateKeyHex
    \/ NewPublicKey
    \/ NewPrivateKeyRandom

\* the constructors do not hash: one member of the hash family is enough
InitParse == Init /\ salt.iv = 0 /\ salt.mul = 3

SpecParse == InitParse /\ [][NextParse]_vars

-----------------------------------------------------------------------------
(* The key objects' arithmetic called directly on every pair of PrivateKey    *)
(* objects: the sum and the product of two keys, on the scalars and on the    *)
(* points.                                                                    *)

\* a.pubkey() + b.pubkey()
CallPubkeyPlus ==
    /\ pc = "idle"
    /\ \E a_p \in Scalars, b_p \in Scalars :
          /\ input' = [op |-> "operator+", a |-> a_p, b |-> b_p]
          /\ ret' = Outcome("operator+",
                            Bind(pubkey(a_p), LAMBDA A :
                            Bind(pubkey(b_p), LAMBDA B : PublicKey_add(A, B))))
    /\ pc' = "called"
    /\ UNCHANGED <<salt, secret, a, r, B_, C_, e, s, C, htc_msg_to_hash, htc_counter, ctx, thread>>

\* a.tweak_add(b.raw_value()).pubkey()
CallTweakAdd ==
    /\ pc = "idle"
    /\ \E a_p \in Scalars, b_p \in Scalars :
          /\ input' = [op |-> "tweak_add", a |-> a_p, b |-> b_p]
          /\ ret' = Outcome("tweak_add",
                            Bind(tweak_add(a_p, b_p), LAMBDA sum : pubkey(sum)))
    /\ pc' = "called"
    /\ UNCHANGED <<salt, secret, a, r, B_, C_, e, s, C, htc_msg_to_hash, htc_counter, ctx, thread>>

\* a.pubkey().mult(b)
CallMult ==
    /\ pc = "idle"
    /\ \E a_p \in Scalars, b_p \in Scalars :
          /\ input' = [op |-> "mult", a |-> a_p, b |-> b_p]
          /\ ret' = Outcome("mult", Bind(pubkey(a_p), LAMBDA A : mult(A, b_p)))
    /\ pc' = "called"
    /\ UNCHANGED <<salt, secret, a, r, B_, C_, e, s, C, htc_msg_to_hash, htc_counter, ctx, thread>>

\* a.tweak_mul(b.raw_value()).pubkey()
CallTweakMul ==
    /\ pc = "idle"
    /\ \E a_p \in Scalars, b_p \in Scalars :
          /\ input' = [op |-> "tweak_mul", a |-> a_p, b |-> b_p]
          /\ ret' = Outcome("tweak_mul",
                            Bind(tweak_mul(a_p, b_p), LAMBDA product : pubkey(product)))
    /\ pc' = "called"
    /\ UNCHANGED <<salt, secret, a, r, B_, C_, e, s, C, htc_msg_to_hash, htc_counter, ctx, thread>>

\* the integers handed to PrivateKey::tweak_add and tweak_mul as cpp_int
TweakScalars == (0 - CURVE_ORDER) .. (2 * CURVE_ORDER)

\* the integers handed to PublicKey::tweak_mul as cpp_int
PointScalars == 0 .. (2 * CURVE_ORDER)

\* the vectors handed to PublicKey::combine: made of the two objects held
CombineLists == UNION {[1 .. k -> {1, 2}] : k \in 0 .. MaxCombine}

\* the caller constructs a PrivateKey and two PublicKey objects and holds them
HoldOperands ==
    /\ pc = "idle"
    /\ a' \in Scalars
    /\ B_' \in PublicKeys
    /\ C_' \in PublicKeys
    /\ pc' = "held"
    /\ UNCHANGED <<salt, secret, r, e, s, C, input, ret, htc_msg_to_hash, htc_counter, ctx, thread>>

\* one const method called on the objects held; the value returned is in ret
OnOperands(op, scalar, res) ==
    /\ pc = "held"
    /\ input' = [op |-> op, scalar |-> scalar]
    /\ ret' = Outcome(op, res)
    /\ pc' = "called"
    /\ UNCHANGED <<salt, secret, a, r, B_, C_, e, s, C, htc_msg_to_hash, htc_counter, ctx, thread>>

\* a.tweak_add(scalar)
OpPrivateKeyTweakAdd ==
    \E scalar \in TweakScalars :
        OnOperands("PrivateKey::tweak_add", scalar, tweak_add(a, scalar))

\* a.tweak_mul(scalar)
OpPrivateKeyTweakMul ==
    \E scalar \in TweakScalars :
        OnOperands("PrivateKey::tweak_mul", scalar, tweak_mul(a, scalar))

\* B_ + C_
OpPublicKeyPlus ==
    OnOperands("PublicKey::operator+", 0, PublicKey_operator_plus(B_, C_))

\* B_ - C_
OpPublicKeyMinus ==
    OnOperands("PublicKey::operator-", 0, PublicKey_operator_minus(B_, C_))

\* B_.tweak_mul(scalar)
OpPublicKeyTweakMul ==
    \E scalar \in PointScalars :
        OnOperands("PublicKey::tweak_mul", scalar, PublicKey_tweak_mul(B_, scalar))

\* PublicKey::combine(pubkeys): scalar is the list of which object is at each place
OpCombine ==
    \E which \in CombineLists :
        OnOperands("PublicKey::combine", which,
                   combine([i \in 1 .. Len(which) |-> IF which[i] = 1 THEN B_ ELSE C_]))

NextKeys ==
    \/ CallPubkeyPlus
    \/ CallTweakAdd
    \/ CallMult
    \/ CallTweakMul
    \/ HoldOperands
    \/ OpPrivateKeyTweakAdd
    \/ OpPrivateKeyTweakMul
    \/ OpPublicKeyPlus
    \/ OpPublicKeyMinus
    \/ OpPublicKeyTweakMul
    \/ OpCombine

\* the key arithmetic does not hash: one member of the hash family is enough
SpecKeys == InitParse /\ [][NextKeys]_vars

-----------------------------------------------------------------------------
(* The hash-to-curve loops run one iteration at a time.  A call stores its    *)
(* argument in input and the loop's locals in htc_msg_to_hash, htc_counter;   *)
(* each iteration is one step, and the step that leaves the loop finishes the *)
(* calling function.  A loop that has started keeps being scheduled.          *)

Messages == ByteStrings(MaxMsgLen)

\* the exception the catch block of a loop swallows
Caught == Raise("caught")

\* hash_to_curve(message) up to the loop
CallHashToCurve ==
    /\ pc = "idle"
    /\ \E message \in Messages :
          /\ input' = [op |-> "hash_to_curve", message |-> message]
          /\ htc_msg_to_hash' = sha256(salt, DOMAIN_SEPARATOR \o message)
    /\ htc_counter' = 0
    /\ pc' = "hash_to_curve"
    /\ UNCHANGED <<salt, secret, a, r, B_, C_, e, s, C, ret, ctx, thread>>

\* the loop test of hash_to_curve and one pass through the loop body
HashToCurveIterate ==
    /\ pc = "hash_to_curve"
    /\ IF ~(htc_counter < HTC_MAX_ITER)
       THEN /\ pc' = "called"
            /\ ret' = Outcome(input.op, Raise("runtime_error"))
            /\ UNCHANGED htc_counter
       ELSE LET hash_output == sha256(salt, htc_msg_to_hash \o uint32_to_le_bytes(htc_counter))
                attempt == try_point(hash_output, Caught)
            IN IF attempt.ok
               THEN pc' = "called" /\ ret' = Outcome(input.op, attempt) /\ UNCHANGED htc_counter
               ELSE htc_counter' = htc_counter + 1 /\ UNCHANGED <<ret, pc>>
    /\ UNCHANGED <<salt, secret, a, r, B_, C_, e, s, C, input, htc_msg_to_hash, ctx, thread>>

\* hash_to_curve_deprecated(message) up to the loop
CallHashToCurveDeprecated ==
    /\ pc = "idle"
    /\ \E message \in Messages :
          /\ input' = [op |-> "hash_to_curve_deprecated", message |-> message]
          /\ htc_msg_to_hash' = message
    /\ pc' = "hash_to_curve_deprecated"
    /\ UNCHANGED <<salt, secret, a, r, B_, C_, e, s, C, ret, htc_counter, ctx, thread>>

\* step1_alice_deprecated(secret_msg, blinding_factor) up to the loop of the
\* hash_to_curve_deprecated it calls first
CallStep1AliceDeprecated ==
    /\ pc = "idle"
    /\ \E secret_msg \in Secrets, blinding_factor \in Scalars \cup {NoKey},
          draw \in SessionDraws :
          /\ input' = [op |-> "step1_alice_deprecated", message |-> secret_msg,
                       blinding_factor |-> blinding_factor, draw |-> draw]
          /\ htc_msg_to_hash' = secret_msg
    /\ pc' = "hash_to_curve_deprecated"
    /\ UNCHANGED <<salt, secret, a, r, B_, C_, e, s, C, ret, htc_counter, ctx, thread>>

\* one pass through the body of while (true) in hash_to_curve_deprecated; the
\* return hands Y to the caller, which runs to its end
HashToCurveDeprecatedIterate ==
    /\ pc = "hash_to_curve_deprecated"
    /\ LET hash_output == sha256(salt, htc_msg_to_hash)
           attempt == try_point(hash_output, Caught)
       IN IF attempt.ok
          THEN /\ pc' = "called"
               /\ ret' = Outcome(input.op,
                           IF input.op = "step1_alice_deprecated"
                           THEN step1_alice_deprecated_blind(attempt.val,
                                    input.blinding_factor, input.draw)
                           ELSE attempt)
               /\ UNCHANGED htc_msg_to_hash
          ELSE htc_msg_to_hash' = hash_output /\ UNCHANGED <<ret, pc>>
    /\ UNCHANGED <<salt, secret, a, r, B_, C_, e, s, C, input, htc_counter, ctx, thread>>

NextHash ==
    \/ CallHashToCurve
    \/ HashToCurveIterate
    \/ CallHashToCurveDeprecated
    \/ CallStep1AliceDeprecated
    \/ HashToCurveDeprecatedIterate

\* where a running call is: its position and the locals of its loop
frame == <<pc, htc_msg_to_hash, htc_counter>>

\* a function that is in its loop goes on running
SpecHash ==
    /\ Init
    /\ [][NextHash]_vars
    /\ WF_frame(HashToCurveIterate)
    /\ WF_frame(HashToCurveDeprecatedIterate)

-----------------------------------------------------------------------------
(* The key derivations called directly on seeds, paths, amount lists and      *)
(* version strings.                                                           *)

Seeds == {<<"a">>, <<"b">>}

PathLevels == {<<"/", "0", "'">>, <<"/", "1">>}

RECURSIVE PathsBelow(_)
\* "m" followed by at most depth levels
PathsBelow(depth) ==
    IF depth = 0 THEN {<<"m">>}
    ELSE PathsBelow(depth - 1)
         \cup {path \o level : path \in PathsBelow(depth - 1), level \in PathLevels}

DerivationPaths == PathsBelow(MaxPathDepth)

Amounts == {1, 2}

AmountLists == UNION {[1 .. k -> Amounts] : k \in 0 .. MaxAmounts}

\* the minor numbers around the two cutoffs
Minors == {0, 11, 12, 14, 15}

VersionTriples ==
    {VersionTuple(maj, min, pat) : maj \in 0 .. MaxVersion, min \in Minors, pat \in 0 .. MaxVersion}

\* the dotted triple of a version, after an optional "v"
VersionString(prefix, v) ==
    prefix \o to_string(v.major) \o <<".">> \o to_string(v.minor) \o <<".">> \o to_string(v.patch)

\* every triple as it is, and the triples of patch 0 after a "v"
WellFormedVersions ==
    {VersionString(<<>>, v) : v \in VersionTriples}
    \cup {VersionString(<<"v">>, v) : v \in {w \in VersionTriples : w.patch = 0}}

\* strings that are no dotted triple of non-negative integers
MalformedVersions ==
    { <<>>, <<"v">>, <<"a">>, <<"1">>, <<"1", "5">>, <<"0", ".", "1", "5">>,
      <<"0", ".", "1", "5", ".">>, <<"0", ".", ".", "1", "5">>,
      <<"0", ".", "1", "5", ".", "0", "a">>, <<"0", ".", "1", "5", "a", ".", "0">>,
      <<"0", ".", "a", ".", "0">>, <<"0", ".", "1", "5", ".", "0", ".", "1">>,
      <<"-", "1", ".", "0", ".", "0">> }

VersionStrings == WellFormedVersions \cup MalformedVersions

CallDeriveKeysVersionAware ==
    /\ pc = "idle"
    /\ \E seed \in Seeds, derivation_path \in DerivationPaths, amounts \in AmountLists,
          version \in VersionStrings :
          /\ input' = [op |-> "derive_keys_version_aware", seed |-> seed,
                       derivation_path |-> derivation_path, amounts |-> amounts,
                       version |-> version]
          /\ ret' = Outcome("derive_keys_version_aware",
                            derive_keys_version_aware(salt, seed, derivation_path, amounts,
                                                      version))
    /\ pc' = "called"
    /\ UNCHANGED <<salt, secret, a, r, B_, C_, e, s, C, htc_msg_to_hash, htc_counter, ctx, thread>>

CallDeriveKeys ==
    /\ pc = "idle"
    /\ \E seed \in Seeds, derivation_path \in DerivationPaths, amounts \in AmountLists :
          /\ input' = [op |-> "derive_keys", seed |-> seed,
                       derivation_path |-> derivation_path, amounts |-> amounts]
          /\ ret' = Outcome("derive_keys",
                            derive_keys(salt, seed, derivation_path, amounts))
    /\ pc' = "called"
    /\ UNCHANGED <<salt, secret, a, r, B_, C_, e, s, C, htc_msg_to_hash, htc_counter, ctx, thread>>

\* the hash-based generations take any two strings: a seed that ends as a path
\* begins, and paths that begin or end where another goes on
HashSeeds == Seeds \cup {<<"a", "m">>}

HashPaths == DerivationPaths \cup {<<"/", "1">>, <<"m", "/">>}

CallDeriveKeysDeprecated ==
    /\ pc = "idle"
    /\ \E seed \in HashSeeds, derivation_path \in HashPaths, amounts \in AmountLists :
          /\ input' = [op |-> "derive_keys_deprecated_pre_0_15", seed |-> seed,
                       derivation_path |-> derivation_path, amounts |-> amounts]
          /\ ret' = Outcome("derive_keys_deprecated_pre_0_15",
                            derive_keys_deprecated_pre_0_15(salt, seed, amounts,
                                                            derivation_path))
    /\ pc' = "called"
    /\ UNCHANGED <<salt, secret, a, r, B_, C_, e, s, C, htc_msg_to_hash, htc_counter, ctx, thread>>

CallDeriveKeysInsecure ==
    /\ pc = "idle"
    /\ \E seed \in HashSeeds, derivation_path \in HashPaths :
          /\ input' = [op |-> "derive_keys_backwards_compatible_insecure_pre_0_12",
                       seed |-> seed, derivation_path |-> derivation_path]
          /\ ret' = Outcome("derive_keys_backwards_compatible_insecure_pre_0_12",
                            derive_keys_backwards_compatible_insecure_pre_0_12(
                                salt, seed, derivation_path))
    /\ pc' = "called"
    /\ UNCHANGED <<salt, secret, a, r, B_, C_, e, s, C, htc_msg_to_hash, htc_counter, ctx, thread>>

\* amounts of the key maps
KeyAmounts == {1, 2}

\* PublicKey objects of the key maps: a point stored compressed, the same point
\* stored uncompressed, and another point
KeyPoints ==
    { pubkey(1).val,
      PublicKey_bytes(ec_pubkey_serialize(to_data(pubkey(1).val), FALSE), FALSE).val,
      pubkey(2).val }

\* the key maps, in every order of iteration: pairs with different amounts
KeyMaps ==
    UNION {{keys \in [1 .. k -> KeyAmounts \X KeyPoints] :
              \A i, j \in 1 .. k : i # j => keys[i][1] # keys[j][1]} : k \in 0 .. MaxKeys}

CallDeriveKeysetId ==
    /\ pc = "idle"
    /\ \E keys \in KeyMaps :
          /\ input' = [op |-> "derive_keyset_id", keys |-> keys]
          /\ ret' = Outcome("derive_keyset_id", derive_keyset_id(salt, keys))
    /\ pc' = "called"
    /\ UNCHANGED <<salt, secret, a, r, B_, C_, e, s, C, htc_msg_to_hash, htc_counter, ctx, thread>>

CallDeriveKeysetIdDeprecated ==
    /\ pc = "idle"
    /\ \E keys \in KeyMaps :
          /\ input' = [op |-> "derive_keyset_id_deprecated", keys |-> keys]
          /\ ret' = Outcome("derive_keyset_id_deprecated",
                            derive_keyset_id_deprecated(salt, keys))
    /\ pc' = "called"
    /\ UNCHANGED <<salt, secret, a, r, B_, C_, e, s, C, htc_msg_to_hash, htc_counter, ctx, thread>>

CallDeriveKeysetIdVersionAware ==
    /\ pc = "idle"
    /\ \E keys \in KeyMaps, version \in VersionStrings :
          /\ input' = [op |-> "derive_keyset_id_version_aware", keys |-> keys,
                       version |-> version]
          /\ ret' = Outcome("derive_keyset_id_version_aware",
                            derive_keyset_id_version_aware(salt, keys, version))
    /\ pc' = "called"
    /\ UNCHANGED <<salt, secret, a, r, B_, C_, e, s, C, htc_msg_to_hash, htc_counter, ctx, thread>>

\* path strings that ^m(/\d+'?)*$ does not match
MalformedPaths ==
    { <<>>, <<"0">>, <<"/", "0">>, <<"x", "/", "0">>, <<"m", "/">>, <<"m", "0">>,
      <<"m", "/", "/", "0">>, <<"m", "/", "0", "/">>, <<"m", "/", "0", "a">>,
      <<"m", "/", "a">>, <<"m", "/", "'">>, <<"m", "/", "0", "'", "'">>,
      <<"m", "/", "-", "1">>, <<"m", "/", "+", "1">>, <<"m", "'">> }

PathStrings == DerivationPaths \cup MalformedPaths

CallGetPrivkeyFromPath ==
    /\ pc = "idle"
    /\ \E mnemonic \in Seeds, path \in PathStrings :
          /\ input' = [op |-> "get_privkey_from_path", seed |-> mnemonic, path |-> path]
          /\ ret' = Outcome("get_privkey_from_path",
                            get_privkey_from_path(salt, mnemonic, path))
    /\ pc' = "called"
    /\ UNCHANGED <<salt, secret, a, r, B_, C_, e, s, C, htc_msg_to_hash, htc_counter, ctx, thread>>

CallIsValidPath ==
    /\ pc = "idle"
    /\ \E path \in PathStrings :
          /\ input' = [op |-> "is_valid_path", path |-> path]
          /\ ret' = Outcome("is_valid_path", Ok(is_valid_path(path)))
    /\ pc' = "called"
    /\ UNCHANGED <<salt, secret, a, r, B_, C_, e, s, C, htc_msg_to_hash, htc_counter, ctx, thread>>

NextDerive ==
    \/ CallGetPrivkeyFromPath
    \/ CallIsValidPath
    \/ CallDeriveKeysVersionAware
    \/ CallDeriveKeys
    \/ CallDeriveKeysDeprecated
    \/ CallDeriveKeysInsecure
    \/ CallDeriveKeysetId
    \/ CallDeriveKeysetIdDeprecated
    \/ CallDeriveKeysetIdVersionAware

SpecDerive == Init /\ [][NextDerive]_vars

-----------------------------------------------------------------------------
(* get_secp_context under concurrent callers.  The context is a function-local *)
(* static: the first thread to reach the declaration runs the initializer,     *)
(* threads that reach it meanwhile wait, later threads read the pointer.       *)

\* a declaration without the guard: whoever finds no context creates one
static_guard_unguarded(state) == IF state = "done" THEN "use" ELSE "create"

\* where a thread that reaches the declaration of the static goes
static_guard(state) ==
    IF state = "uninit" THEN "create"
    ELSE IF state = "initializing" THEN "wait"
    ELSE "use"

\* the calls the threads make: each hands get_secp_context() to libsecp
ThreadCalls ==
    {[op |-> "pubkey", a |-> k] : k \in {1, 2}}
    \cup {[op |-> "mult", a |-> k] : k \in {2, 3}}

\* the call run with the context pointer ptr
thread_call(call, ptr) ==
    IF ptr = NullContext THEN Raise("crash")
    ELSE IF call.op = "pubkey" THEN pubkey(call.a)
    ELSE Bind(pubkey(1), LAMBDA G : mult(G, call.a))

ThreadCall(t) ==
    /\ thread[t].pc = "idle"
    /\ \E call \in ThreadCalls :
          thread' = [thread EXCEPT ![t] = [pc |-> "get_secp_context", call |-> call,
                                          ptr |-> NullContext, ret |-> NoRet]]
    /\ UNCHANGED <<salt, pc, secret, a, r, B_, C_, e, s, C, input, ret,
                   htc_msg_to_hash, htc_counter, ctx>>

\* the thread reaches the declaration of the static
ThreadEnter(t) ==
    /\ thread[t].pc = "get_secp_context"
    /\ static_guard(ctx.state) # "wait"
    /\ IF static_guard(ctx.state) = "create"
       THEN /\ ctx' = [ctx EXCEPT !.state = "initializing"]
            /\ thread' = [thread EXCEPT ![t].pc = "secp256k1_context_create"]
       ELSE /\ thread' = [thread EXCEPT ![t].pc = "use", ![t].ptr = ctx.ptr]
            /\ UNCHANGED ctx
    /\ UNCHANGED <<salt, pc, secret, a, r, B_, C_, e, s, C, input, ret,
                   htc_msg_to_hash, htc_counter>>

\* the initializer: secp256k1_context_create returns a new context
ThreadCreate(t) ==
    /\ thread[t].pc = "secp256k1_context_create"
    /\ ctx' = [state |-> "done", ptr |-> ctx.created + 1, created |-> ctx.created + 1]
    /\ thread' = [thread EXCEPT ![t].pc = "use", ![t].ptr = ctx.created + 1]
    /\ UNCHANGED <<salt, pc, secret, a, r, B_, C_, e, s, C, input, ret,
                   htc_msg_to_hash, htc_counter>>

\* the libsecp calls of the operation, with the pointer the thread got
ThreadUse(t) ==
    /\ thread[t].pc = "use"
    /\ thread' = [thread EXCEPT
                     ![t].pc = "returned",
                     ![t].ret = Outcome(thread[t].call.op,
                                        thread_call(thread[t].call, thread[t].ptr))]
    /\ UNCHANGED <<salt, pc, secret, a, r, B_, C_, e, s, C, input, ret,
                   htc_msg_to_hash, htc_counter, ctx>>

\* the caller takes the result and is free to call again
ThreadReturn(t) ==
    /\ thread[t].pc = "returned"
    /\ thread' = [thread EXCEPT ![t].pc = "idle"]
    /\ UNCHANGED <<salt, pc, secret, a, r, B_, C_, e, s, C, input, ret,
                   htc_msg_to_hash, htc_counter, ctx>>

NextThreads ==
    \E t \in Threads :
        \/ ThreadCall(t)
        \/ ThreadEnter(t)
        \/ ThreadCreate(t)
        \/ ThreadUse(t)
        \/ ThreadReturn(t)

SpecThreads == InitParse /\ [][NextThreads]_vars

-----------------------------------------------------------------------------
(* AES.  EVP_aes_256_cbc without padding is a keyed permutation of blocks in   *)
(* chaining mode: a block is the number its bytes spell, a block is enciphered *)
(* after adding the previous cipher block to it.                               *)

\* "ABCDEFGHIJKLMNOPQRSTUVWXYZabcdefghijklmnopqrstuvwxyz0123456789+/"
base64_chars == <<"A", "B", "a", "b", "0", "1", "+", "/">>

\* lookup[c]: the index of the character in the alphabet, or -1
base64_lookup(c) ==
    IF \E i \in 1 .. B64_BASE : base64_chars[i] = c
    THEN (CHOOSE i \in 1 .. B64_BASE : base64_chars[i] = c) - 1
    ELSE 0 - 1

RECURSIVE encode_base64_standard_from(_, _)
encode_base64_standard_from(data, i) ==
    IF ~(i < Len(data)) THEN <<>>
    ELSE LET val == data[i + 1] * BYTE_MOD * BYTE_MOD
                    + (IF i + 1 < Len(data) THEN data[i + 2] * BYTE_MOD ELSE 0)
                    + (IF i + 2 < Len(data) THEN data[i + 3] ELSE 0)
         IN << base64_chars[((val \div (B64_BASE * B64_BASE * B64_BASE)) % B64_BASE) + 1],
               base64_chars[((val \div (B64_BASE * B64_BASE)) % B64_BASE) + 1],
               IF i + 1 < Len(data) THEN base64_chars[((val \div B64_BASE) % B64_BASE) + 1]
               ELSE "=",
               IF i + 2 < Len(data) THEN base64_chars[(val % B64_BASE) + 1] ELSE "=" >>
            \o encode_base64_standard_from(data, i + 3)

encode_base64_standard(data) == encode_base64_standard_from(data, 0)

RECURSIVE decode_base64_standard_from(_, _)
\* the loop of decode_base64_standard from position i (0-based)
decode_base64_standard_from(encoded, i) ==
    IF ~(i < Len(encoded)) \/ i + 3 >= Len(encoded) THEN <<>>
    ELSE LET ca == base64_lookup(encoded[i + 1])
             cb == base64_lookup(encoded[i + 2])
             cc == base64_lookup(encoded[i + 3])
             cd == base64_lookup(encoded[i + 4])
         IN IF ca = 0 - 1 \/ cb = 0 - 1 THEN <<>>
            ELSE <<(ca * 2 + (cb \div 4)) % BYTE_MOD>>
                 \o (IF encoded[i + 3] # "=" /\ cc # 0 - 1
                     THEN <<((cb % 4) * 4 + (cc \div 2)) % BYTE_MOD>> ELSE <<>>)
                 \o (IF encoded[i + 4] # "=" /\ cd # 0 - 1
                     THEN <<((cc % 2) * 8 + cd) % BYTE_MOD>> ELSE <<>>)
                 \o decode_base64_standard_from(encoded, i + 4)

decode_base64_standard(encoded) == decode_base64_standard_from(encoded, 0)

encode_base64_urlsafe(data) ==
    LET base64 == [i \in 1 .. Len(encode_base64_standard(data)) |->
                      LET c == encode_base64_standard(data)[i]
                      IN IF c = "+" THEN "-" ELSE IF c = "/" THEN "_" ELSE c]
        pads == {i \in 1 .. Len(base64) : base64[i] = "="}
    IN IF pads = {} THEN base64
       ELSE SubSeq(base64, 1, (CHOOSE i \in pads : \A j \in pads : i <= j) - 1)

RECURSIVE pad_to_groups(_)
\* while (base64.length() % 4 != 0) base64 += '='
pad_to_groups(base64) ==
    IF Len(base64) % 4 = 0 THEN base64 ELSE pad_to_groups(Append(base64, "="))

decode_base64_urlsafe(encoded) ==
    decode_base64_standard(pad_to_groups(
        [i \in 1 .. Len(encoded) |->
            IF encoded[i] = "-" THEN "+" ELSE IF encoded[i] = "_" THEN "/" ELSE encoded[i]]))

\* a padding that adds nothing to whole blocks
pad_short(data) ==
    LET padding_length == (BLOCK_SIZE - (Len(data) % BLOCK_SIZE)) % BLOCK_SIZE
    IN data \o [i \in 1 .. padding_length |-> padding_length]

pad(data) ==
    LET padding_length == BLOCK_SIZE - (Len(data) % BLOCK_SIZE)
    IN data \o [i \in 1 .. padding_length |-> padding_length % BYTE_MOD]

unpad(data) ==
    IF data = <<>> THEN Raise("runtime_error")
    ELSE LET padding_length == data[Len(data)]
         IN IF padding_length = 0 \/ padding_length > BLOCK_SIZE
               \/ padding_length > Len(data)
            THEN Raise("runtime_error")
            ELSE IF \E i \in Len(data) - padding_length + 1 .. Len(data) :
                       data[i] # padding_length
            THEN Raise("runtime_error")
            ELSE Ok(SubSeq(data, 1, Len(data) - padding_length))

RECURSIVE bytes_to_key_loop(_, _, _, _, _)
\* the while loop of bytes_to_key
bytes_to_key_loop(H, data, key, final_key, output) ==
    IF ~(Len(final_key) < output) THEN SubSeq(final_key, 1, output)
    ELSE bytes_to_key_loop(H, data, sha256(H, key \o data),
                           final_key \o sha256(H, key \o data), output)

bytes_to_key(H, password, salt_bytes, output) ==
    IF Len(salt_bytes) # AES_SALT_LEN THEN Raise("invalid_argument")
    ELSE Ok(bytes_to_key_loop(H, password \o salt_bytes, sha256(H, password \o salt_bytes),
                              sha256(H, password \o salt_bytes), output))

\* draw: what RAND_bytes does, whether it succeeds and the bytes it stores
generate_random_bytes(draw) ==
    IF ~draw.secure THEN Raise("runtime_error") ELSE Ok(draw.bytes)

\* the number of block values
BLOCK_MOD == BYTE_MOD ^ BLOCK_SIZE

\* the block permutation under the key, and its inverse
cipher_block(aes_key, block) == (block * 5 + BytesToInt(aes_key)) % BLOCK_MOD

decipher_block(aes_key, block) ==
    ((block + BLOCK_MOD * BLOCK_MOD - BytesToInt(aes_key)) * 205) % BLOCK_MOD

RECURSIVE evp_encrypt(_, _, _)
\* EVP_EncryptUpdate / Final with padding disabled: previous is the chaining block
evp_encrypt(aes_key, previous, data) ==
    IF data = <<>> THEN <<>>
    ELSE LET block == cipher_block(aes_key,
                          (BytesToInt(SubSeq(data, 1, BLOCK_SIZE)) + previous) % BLOCK_MOD)
         IN IntToBytes(block, BLOCK_SIZE)
            \o evp_encrypt(aes_key, block, SubSeq(data, BLOCK_SIZE + 1, Len(data)))

RECURSIVE evp_decrypt_blocks(_, _, _)
evp_decrypt_blocks(aes_key, previous, payload) ==
    IF payload = <<>> THEN <<>>
    ELSE LET block == BytesToInt(SubSeq(payload, 1, BLOCK_SIZE))
         IN IntToBytes((decipher_block(aes_key, block) + BLOCK_MOD - previous) % BLOCK_MOD,
                       BLOCK_SIZE)
            \o evp_decrypt_blocks(aes_key, block, SubSeq(payload, BLOCK_SIZE + 1, Len(payload)))

\* EVP_DecryptUpdate / Final with padding disabled: fails on a partial block
evp_decrypt(aes_key, iv, payload) ==
    IF Len(payload) % BLOCK_SIZE # 0 THEN Raise("runtime_error")
    ELSE Ok(evp_decrypt_blocks(aes_key, BytesToInt(iv), payload))

\* AESCipher(key): the key must not be empty
AESCipher(key) == IF key = <<>> THEN Raise("invalid_argument") ELSE Ok(key)

encrypt(H, key_, message, draw) ==
    Bind(generate_random_bytes(draw), LAMBDA salt_bytes :
    Bind(bytes_to_key(H, key_, salt_bytes, AES_KEY_LEN + BLOCK_SIZE), LAMBDA key_iv :
    LET aes_key == SubSeq(key_iv, 1, AES_KEY_LEN)
        iv == SubSeq(key_iv, AES_KEY_LEN + 1, Len(key_iv))
        encrypted_data == evp_encrypt(aes_key, BytesToInt(iv), pad(message))
    IN Ok(encode_base64_urlsafe(SALT_HEADER \o salt_bytes \o encrypted_data))))

decrypt(H, key_, encrypted) ==
    LET encrypted_data == decode_base64_urlsafe(encrypted)
        header == Len(SALT_HEADER)
    IN IF Len(encrypted_data) < header + AES_SALT_LEN + BLOCK_SIZE
       THEN Raise("invalid_argument")
       ELSE IF SubSeq(encrypted_data, 1, header) # SALT_HEADER THEN Raise("invalid_argument")
       ELSE LET salt_bytes == SubSeq(encrypted_data, header + 1, header + AES_SALT_LEN)
                payload == SubSeq(encrypted_data, header + AES_SALT_LEN + 1,
                                  Len(encrypted_data))
            IN Bind(bytes_to_key(H, key_, salt_bytes, AES_KEY_LEN + BLOCK_SIZE),
                    LAMBDA key_iv :
               Bind(evp_decrypt(SubSeq(key_iv, 1, AES_KEY_LEN),
                                SubSeq(key_iv, AES_KEY_LEN + 1, Len(key_iv)), payload),
                    LAMBDA decrypted_data :
               unpad(decrypted_data)))

\* the keys of the ciphers
CipherKeys == {<<>>, <<1>>, <<2, 3>>}

\* the messages: every string of these bytes up to MaxMessageLen bytes
MessageBytes == {0, 1, 2, 15}

AesMessages == UNION {[1 .. k -> MessageBytes] : k \in 0 .. MaxMessageLen}

\* what RAND_bytes may do when asked for the salt
SaltDraws == [secure : BOOLEAN, bytes : [1 .. AES_SALT_LEN -> {0, 7, 15}]]

\* AESCipher(key).encrypt(message)
CallEncrypt ==
    /\ pc = "idle"
    /\ \E key \in CipherKeys, message \in AesMessages, draw \in SaltDraws :
          /\ input' = [op |-> "encrypt", key |-> key, message |-> message, draw |-> draw]
          /\ ret' = Outcome("encrypt",
                            Bind(AESCipher(key), LAMBDA key_ :
                                 encrypt(salt, key_, message, draw)))
          /\ pc' = IF AESCipher(key).ok /\ draw.secure THEN "encrypted" ELSE "called"
    /\ UNCHANGED <<salt, secret, a, r, B_, C_, e, s, C, htc_msg_to_hash, htc_counter, ctx, thread>>

\* AESCipher(key).decrypt of what encrypt returned
CallDecrypt ==
    /\ pc = "encrypted"
    /\ input' = [op |-> "decrypt", key |-> input.key, message |-> input.message,
                 encrypted |-> ret.val]
    /\ ret' = Outcome("decrypt", decrypt(salt, input.key, ret.val))
    /\ pc' = "called"
    /\ UNCHANGED <<salt, secret, a, r, B_, C_, e, s, C, htc_msg_to_hash, htc_counter, ctx, thread>>

-----------------------------------------------------------------------------
(* BIP-39.  A bit is 0 or 1; a mnemonic string is the sequence of its words   *)
(* and of the blanks between them; the wordlist is the installed resource     *)
(* file, read without error.                                                  *)

\* load_english_wordlist(): the first words of english.txt
wordlist ==
    <<"abandon", "ability", "able", "about", "above", "absent", "absorb", "abstract">>

\* bit number i (0 = most significant) of a byte
byte_bit(byte, i) == (byte \div (2 ^ (BYTE_BITS - 1 - i))) % 2

calculate_checksum(H, entropy) ==
    LET hash == sha256(H, entropy)
        checksum_bits == (Len(entropy) * BYTE_BITS) \div CHECKSUM_RATIO
    IN [i \in 1 .. checksum_bits |->
           byte_bit(hash[((i - 1) \div BYTE_BITS) + 1], (i - 1) % BYTE_BITS)]

bytes_to_bits(bytes) ==
    [i \in 1 .. Len(bytes) * BYTE_BITS |->
        byte_bit(bytes[((i - 1) \div BYTE_BITS) + 1], (i - 1) % BYTE_BITS)]

RECURSIVE bits_value(_)
\* the number that the bits spell, most significant bit first
bits_value(bits) ==
    IF bits = <<>> THEN 0
    ELSE bits_value(SubSeq(bits, 1, Len(bits) - 1)) * 2 + bits[Len(bits)]

\* a conversion that reads the least significant bit first
bits_to_bytes_lsb(bits) ==
    IF Len(bits) % BYTE_BITS # 0 THEN Raise("invalid_argument")
    ELSE Ok([k \in 1 .. Len(bits) \div BYTE_BITS |->
                bits_value([j \in 1 .. BYTE_BITS |-> bits[k * BYTE_BITS + 1 - j]])])

bits_to_bytes(bits) ==
    IF Len(bits) % BYTE_BITS # 0 THEN Raise("invalid_argument")
    ELSE Ok([k \in 1 .. Len(bits) \div BYTE_BITS |->
                bits_value(SubSeq(bits, (k - 1) * BYTE_BITS + 1, k * BYTE_BITS))])

\* the index of the word in the list, from 0, or -1
find_word_index(word, words) ==
    IF \E i \in 1 .. Len(words) : words[i] = word
    THEN (CHOOSE i \in 1 .. Len(words) : words[i] = word) - 1
    ELSE 0 - 1

\* the 11-bit group that starts at bit i (from 0); bits past the end count as 0
word_index_at(bits, i) ==
    bits_value([j \in 1 .. WORD_BITS |-> IF i + j - 1 < Len(bits) THEN bits[i + j] ELSE 0])

\* words joined with single blanks
RECURSIVE join_words(_)
join_words(words) ==
    IF words = <<>> THEN <<>>
    ELSE IF Len(words) = 1 THEN words
    ELSE <<Head(words), " ">> \o join_words(Tail(words))

entropy_to_mnemonic(H, entropy) ==
    IF Len(entropy) < ENTROPY_MIN \/ Len(entropy) > ENTROPY_MAX
       \/ Len(entropy) % ENTROPY_STEP # 0
    THEN Raise("invalid_argument")
    ELSE LET entropy_bits == bytes_to_bits(entropy) \o calculate_checksum(H, entropy)
             groups == (Len(entropy_bits) + WORD_BITS - 1) \div WORD_BITS
         IN Ok(join_words([k \in 1 .. groups |->
                   wordlist[word_index_at(entropy_bits, (k - 1) * WORD_BITS) + 1]]))

RECURSIVE split_words(_)
\* while (iss >> word): the runs between blanks; a run of several items is the
\* word they spell together
split_words(mnemonic) ==
    IF mnemonic = <<>> THEN <<>>
    ELSE IF Head(mnemonic) = " " THEN split_words(Tail(mnemonic))
    ELSE LET blanks == {i \in 1 .. Len(mnemonic) : mnemonic[i] = " "}
             stop == IF blanks = {} THEN Len(mnemonic) + 1
                     ELSE CHOOSE i \in blanks : \A j \in blanks : i <= j
         IN <<SubSeq(mnemonic, 1, stop - 1)>>
            \o split_words(SubSeq(mnemonic, stop, Len(mnemonic)))

RECURSIVE words_to_bits(_)
\* the loop of mnemonic_to_entropy over the words
words_to_bits(words) ==
    IF words = <<>> THEN Ok(<<>>)
    ELSE LET index == IF Len(Head(words)) = 1 THEN find_word_index(Head(words)[1], wordlist)
                      ELSE 0 - 1
         IN IF index = 0 - 1 THEN Raise("invalid_argument")
            ELSE Bind(words_to_bits(Tail(words)), LAMBDA rest :
                 Ok([j \in 1 .. WORD_BITS |-> (index \div (2 ^ (WORD_BITS - j))) % 2] \o rest))

mnemonic_to_entropy(H, mnemonic) ==
    LET words == split_words(mnemonic)
    IN IF Len(words) % 3 # 0 \/ Len(words) < WORDS_MIN \/ Len(words) > WORDS_MAX
       THEN Raise("invalid_argument")
       ELSE Bind(words_to_bits(words), LAMBDA bits :
            LET total_bits == Len(bits)
                checksum_bits == total_bits \div (CHECKSUM_RATIO + 1)
                entropy_bits == total_bits - checksum_bits
                provided_checksum == SubSeq(bits, entropy_bits + 1, total_bits)
            IN Bind(bits_to_bytes(SubSeq(bits, 1, entropy_bits)), LAMBDA entropy :
               IF provided_checksum # calculate_checksum(H, entropy)
               THEN Raise("invalid_argument")
               ELSE Ok(entropy)))

\* try { mnemonic_to_entropy } catch (const exception&)
validate_mnemonic(H, mnemonic) == Ok(mnemonic_to_entropy(H, mnemonic).ok)

\* the entropies handed to the encoder: every length up to MaxEntropyLen
EntropyBytes == {0, 6, 15}

Entropies == UNION {[1 .. k -> EntropyBytes] : k \in 0 .. MaxEntropyLen}

\* the words of mnemonics: the wordlist and a word that is not in it
MnemonicWords == {wordlist[i] : i \in 1 .. Len(wordlist)} \cup {"Abandon"}

\* the words of the mnemonic that encodes an entropy
encoding_words(H, entropy) ==
    LET runs == split_words(entropy_to_mnemonic(H, entropy).val)
    IN [i \in 1 .. Len(runs) |-> runs[i][1]]

\* word sequences: the short ones, and the encodings of the entropies as they
\* are, with the last word replaced, and with the last word dropped
WordSequences(H) ==
    LET encodings == {encoding_words(H, entropy) :
                        entropy \in {en \in Entropies : entropy_to_mnemonic(H, en).ok}}
    IN UNION {[1 .. k -> MnemonicWords] : k \in 0 .. WORDS_MIN}
       \cup {[ws EXCEPT ![Len(ws)] = w] : ws \in encodings, w \in MnemonicWords}
       \cup {SubSeq(ws, 1, Len(ws) - 1) : ws \in encodings}

\* the mnemonic strings of a word sequence: single blanks, and blanks around
Spellings(ws) == {join_words(ws), <<" ">> \o join_words(ws) \o <<" ">>}

CallEntropyToMnemonic ==
    /\ pc = "idle"
    /\ \E entropy \in Entropies :
          /\ input' = [op |-> "entropy_to_mnemonic", entropy |-> entropy]
          /\ ret' = Outcome("entropy_to_mnemonic", entropy_to_mnemonic(salt, entropy))
    /\ pc' = "called"
    /\ UNCHANGED <<salt, secret, a, r, B_, C_, e, s, C, htc_msg_to_hash, htc_counter, ctx, thread>>

CallMnemonicToEntropy ==
    /\ pc = "idle"
    /\ \E ws \in WordSequences(salt) : \E mnemonic \in Spellings(ws) :
          /\ input' = [op |-> "mnemonic_to_entropy", mnemonic |-> mnemonic]
          /\ ret' = Outcome("mnemonic_to_entropy", mnemonic_to_entropy(salt, mnemonic))
    /\ pc' = "called"
    /\ UNCHANGED <<salt, secret, a, r, B_, C_, e, s, C, htc_msg_to_hash, htc_counter, ctx, thread>>

CallValidateMnemonic ==
    /\ pc = "idle"
    /\ \E ws \in WordSequences(salt) : \E mnemonic \in Spellings(ws) :
          /\ input' = [op |-> "validate_mnemonic", mnemonic |-> mnemonic]
          /\ ret' = Outcome("validate_mnemonic", validate_mnemonic(salt, mnemonic))
    /\ pc' = "called"
    /\ UNCHANGED <<salt, secret, a, r, B_, C_, e, s, C, htc_msg_to_hash, htc_counter, ctx, thread>>

-----------------------------------------------------------------------------
(* helpers.  An assert is compiled out when the build defines NDEBUG; the      *)
(* conversion of a NaN to int is undefined and yields whatever the build makes *)
(* of it.                                                                      *)

RECURSIVE ceil_log2_from(_, _)
\* the smallest k >= from with 2^k >= value
ceil_log2_from(value, from) ==
    IF 2 ^ from >= value THEN from ELSE ceil_log2_from(value, from + 1)

\* static_cast<int>(ceil(log2(value))) for value > 0
ceil_log2(value) == ceil_log2_from(value, 0)

max(x, y) == IF x < y THEN y ELSE x

\* ndebug: the build compiles asserts out; nan_as_int: what the build makes of
\* static_cast<int>(NaN), the logarithm of a negative number
calculate_number_of_blank_outputs(fee_reserve_sat, ndebug, nan_as_int) ==
    IF ~ndebug /\ ~(fee_reserve_sat >= 0) THEN Raise("abort")
    ELSE IF fee_reserve_sat = 0 THEN Ok(0)
    ELSE IF fee_reserve_sat < 0 THEN Ok(max(nan_as_int, 1))
    ELSE Ok(max(ceil_log2(fee_reserve_sat), 1))

\* the fee reserves handed to the function
FeeReserves == (0 - MaxFee) .. MaxFee

\* values of static_cast<int>(NaN): INT_MIN on x86, 0 on ARM, or anything else
NanAsInt == {0 - INT_MAX - 1, 0, 7}

CallCalculateNumberOfBlankOutputs ==
    /\ pc = "idle"
    /\ \E fee_reserve_sat \in FeeReserves, ndebug \in BOOLEAN, nan_as_int \in NanAsInt :
          /\ fee_reserve_sat >= 0 => nan_as_int = 0
          /\ input' = [op |-> "calculate_number_of_blank_outputs",
                       fee_reserve_sat |-> fee_reserve_sat, ndebug |-> ndebug]
          /\ ret' = Outcome("calculate_number_of_blank_outputs",
                            calculate_number_of_blank_outputs(fee_reserve_sat, ndebug,
                                                              nan_as_int))
    /\ pc' = "called"
    /\ UNCHANGED <<salt, secret, a, r, B_, C_, e, s, C, htc_msg_to_hash, htc_counter, ctx, thread>>


NextHelpers ==
    \/ CallCalculateNumberOfBlankOutputs
    \/ CallEntropyToMnemonic
    \/ CallMnemonicToEntropy
    \/ CallValidateMnemonic
    \/ CallEncrypt
    \/ CallDecrypt

SpecHelpers == Init /\ [][NextHelpers]_vars

-----------------------------------------------------------------------------
(* Properties *)

\* the call returned the boolean b
Returned(b) == ret.ok /\ ret.val = b

\* the call raised an exception
Raised == ~ret.ok /\ ret.err # "diverges"

\* the point a * P of libsecp, for a point P of the curve
Times(k, pk) == ec_mul(k, to_data(pk))

\* C1 (amended): whenever step1_alice and step2_bob have returned, step3_alice
\* returns, its result C equals hash_to_curve(secret).mult(a), and verify(a, C,
\* secret) returns true.
C1_RoundTrip ==
    /\ ret.op = "step3_alice" => ret.ok
    /\ pc \in {"unblinded", "verified"} =>
          /\ hash_to_curve(salt, secret).ok
          /\ PublicKey_eq(C, mult(hash_to_curve(salt, secret).val, a).val)
          /\ to_data(C) = Times(a, hash_to_curve(salt, secret).val)
    /\ pc = "verified" => Returned(TRUE)

\* C1 (witness): a session with a blinding factor in [1, n) and a non-empty secret
\* went through the three steps and verify returned true.
C1_Witness ==
    /\ pc = "verified"
    /\ Returned(TRUE)
    /\ secret # <<>>
    /\ r \in Scalars
    /\ a \in Scalars

\* C1 (as stated): for every secret (on which hash_to_curve returns) and every
\* blinding factor r in [1, n) handed to it, step1_alice returns a blinded message,
\* and the round trip holds.
C1_Original ==
    /\ C1_RoundTrip
    /\ (/\ ret.op = "step1_alice"
        /\ input.blinding_factor \in Scalars
        /\ hash_to_curve(salt, secret).ok) => ret.ok

\* the record of attempts the two-attempt policy allows, given the outcomes of the
\* check with the current variant and of the check with the legacy variant
C2_Policy(current, legacy) ==
    /\ Len(ret.attempts) \in {1, 2}
    /\ ret.attempts[1] = Attempt("current", current)
    /\ Len(ret.attempts) = 2 <=> (current.ok /\ current.val = FALSE)
    /\ Len(ret.attempts) = 2 => ret.attempts[2] = Attempt("legacy", legacy)
    /\ Returned(TRUE) <=> \E i \in 1 .. Len(ret.attempts) : ret.attempts[i].result = "true"
    /\ Returned(FALSE) <=> \A i \in 1 .. Len(ret.attempts) : ret.attempts[i].result = "false"

\* the check C == a * Y of verify, Y being the outcome of a hash-to-curve variant
C2_TokenCheck(Y) ==
    Bind(Y, LAMBDA point : Ok(to_data(C) = Times(a, point)))

\* the proof check of carol_verify_dleq, Y being the outcome of a hash-to-curve variant
C2_ProofCheck(Y) ==
    Bind(Y, LAMBDA point : carol_reblind_and_verify(salt, point, r, C, e, s, pubkey(a).val))

\* C2: in verify and in carol_verify_dleq the legacy variant is evaluated only after
\* the check with the current variant returned false, then exactly once, and the
\* call returns true exactly when one of the evaluated checks returned true.
C2_TwoAttempts ==
    /\ ret.op = "verify" =>
          C2_Policy(C2_TokenCheck(hash_to_curve(salt, secret)),
                    C2_TokenCheck(hash_to_curve_deprecated(salt, secret)))
    /\ ret.op = "carol_verify_dleq" =>
          C2_Policy(C2_ProofCheck(hash_to_curve(salt, secret)),
                    C2_ProofCheck(hash_to_curve_deprecated(salt, secret)))

\* C2 (witness): a call of carol_verify_dleq whose check with the current variant
\* returned false and whose legacy check then returned true.
C2_Witness ==
    /\ ret.op = "carol_verify_dleq"
    /\ Len(ret.attempts) = 2
    /\ ret.attempts[1].result = "false"
    /\ ret.attempts[2].result = "true"
    /\ Returned(TRUE)

\* C == a * Y for the point Y a hash-to-curve variant returned
C3_Matches(Y) == Y.ok /\ to_data(C) = Times(a, Y.val)

\* C3 (amended): verify(a, C, secret) returns true if and only if C equals
\* a * hash_to_curve(secret) or, hash_to_curve(secret) having returned, C equals
\* a * hash_to_curve_deprecated(secret).
C3_ValidIffCurrentOrLegacy ==
    ret.op = "verify" =>
        (Returned(TRUE) <=>
            \/ C3_Matches(hash_to_curve(salt, secret))
            \/ /\ hash_to_curve(salt, secret).ok
               /\ C3_Matches(hash_to_curve_deprecated(salt, secret)))

\* C3 (witness): verify returned true for a C that is not a * hash_to_curve(secret).
C3_Witness ==
    /\ ret.op = "verify"
    /\ Returned(TRUE)
    /\ hash_to_curve(salt, secret).ok
    /\ ~C3_Matches(hash_to_curve(salt, secret))

\* C3 (as stated): verify(a, C, secret) returns true if and only if C equals
\* a * hash_to_curve(secret), for the current mapping.
C3_Original ==
    ret.op = "verify" => (Returned(TRUE) <=> C3_Matches(hash_to_curve(salt, secret)))

\* C4: whenever step2_bob(B', a) or step2_bob_dleq(B', a, p), for any nonce p, has
\* returned a pair (e, s), the signature is C' = a * B' and
\* alice_verify_dleq(B', a * B', e, s, a * G) returns true.
C4_HonestProofVerifies ==
    /\ pc = "signed" => to_data(C_) = Times(a, B_)
    /\ pc = "alice_checked" => Returned(TRUE)

\* C4 (witness): a proof was generated and alice_verify_dleq has returned true on it.
C4_Witness ==
    /\ pc = "alice_checked"
    /\ Returned(TRUE)
    /\ e \in Scalars
    /\ s \in Scalars

\* the inverse of a point of libsecp
C5_Neg(P) == IF P = Infinity THEN Infinity ELSE <<P[1], (FIELD_PRIME - P[2]) % FIELD_PRIME>>

\* R1 = s_p * G - e * A and R2 = s_p * B' - e * C' of the session, for a response s_p
C5_R1(s_p) ==
    ec_add(ec_mul(s_p, ec_pubkey_parse(GENERATOR_POINT)), C5_Neg(Times(e, pubkey(a).val)))

C5_R2(s_p) == ec_add(Times(s_p, B_), C5_Neg(Times(e, C_)))

\* the challenge hash collides: the tampered response gives points R1, R2 other than
\* those of the honest response, and yet the same hash
C5_Collision ==
    /\ C5_R1(input.s) # Infinity
    /\ C5_R2(input.s) # Infinity
    /\ <<C5_R1(input.s), C5_R2(input.s)>> # <<C5_R1(s), C5_R2(s)>>
    /\ hash_e(salt, PublicKey_of(C5_R1(input.s)).val, PublicKey_of(C5_R2(input.s)).val,
              pubkey(a).val, C_).val = PrivateKey_serialize(e)

\* C5 (as stated): with s replaced by another scalar of [1, n), alice_verify_dleq
\* returns false on an honestly generated proof, unless the challenge hash collides.
C5_TamperedReturnsFalse ==
    pc = "tamper_checked" => (Returned(FALSE) \/ C5_Collision)

\* C6 (as stated): on points of the curve, scalars of [1, n) and any secret (on which
\* hash_to_curve returns), verify, alice_verify_dleq and carol_verify_dleq never raise.
C6_ChecksNeverRaise ==
    /\ ret.op = "alice_verify_dleq" => ~Raised
    /\ (ret.op \in {"verify", "carol_verify_dleq"} /\ hash_to_curve(salt, secret).ok)
          => ~Raised

\* the blinded messages step1_alice can return for a secret, over the blinding
\* factors of [1, n)
C7_Reachable(secret_msg) ==
    {step1_alice(salt, secret_msg, r_p, CHOOSE draw \in RandomDraws : TRUE).val[1] :
        r_p \in {r2 \in Scalars :
                    step1_alice(salt, secret_msg, r2, CHOOSE draw \in RandomDraws : TRUE).ok}}

\* C7 (amended): a blinded message B' that step1_alice returned for one secret is
\* returned for every other secret too (on which hash_to_curve returns) by some
\* blinding factor of [1, n), unless B' is hash_to_curve of that other secret.
C7_BlindingHides ==
    pc = "blinded" =>
        /\ B_ \in C7_Reachable(secret)
        /\ \A secret2 \in Secrets :
              (/\ hash_to_curve(salt, secret2).ok
               /\ ~PublicKey_eq(B_, hash_to_curve(salt, secret2).val))
              => B_ \in C7_Reachable(secret2)

\* C7 (witness): a blinded message returned for one secret that another secret, with
\* another hash_to_curve point, reaches too.
C7_Witness ==
    /\ pc = "blinded"
    /\ \E secret2 \in Secrets :
          /\ hash_to_curve(salt, secret2).ok
          /\ ~PublicKey_eq(hash_to_curve(salt, secret2).val, hash_to_curve(salt, secret).val)
          /\ B_ \in C7_Reachable(secret2)

\* C7 (as stated): a blinded message that step1_alice returned for one secret is
\* returned for every other secret (on which hash_to_curve returns) by some blinding
\* factor of [1, n).
C7_Original ==
    pc = "blinded" =>
        \A secret2 \in Secrets :
            hash_to_curve(salt, secret2).ok => B_ \in C7_Reachable(secret2)

\* the string is 2 * KEY_BYTES hex digits
C8_IsHexEncoding(str) ==
    /\ Len(str) = 2 * KEY_BYTES
    /\ \A i \in 1 .. Len(str) : IsHexDigit(str[i])

RECURSIVE C8_HexValue(_)
\* the number a string of hex digits denotes
C8_HexValue(str) ==
    IF str = <<>> THEN 0
    ELSE C8_HexValue(SubSeq(str, 1, Len(str) - 1)) * HEX_BASE + DigitVal(str[Len(str)])

\* the constructor called on the value v: it succeeds exactly when v is in [1, n),
\* and then the object holds v
C8_Decides(v) ==
    /\ ret.ok <=> (1 <= v /\ v < CURVE_ORDER)
    /\ ret.ok => ret.val = v

\* C8: each PrivateKey constructor (from KEY_BYTES raw bytes, from hex, from a big
\* integer) succeeds exactly when the value is in [1, CURVE_ORDER); no constructor
\* returns an object holding a value outside that range, and a refusal is an
\* invalid_argument.
C8_ScalarRange ==
    ret.op \in {"PrivateKey_bytes", "PrivateKey_int", "PrivateKey_hex"} =>
        /\ ret.ok => ret.val \in 1 .. CURVE_ORDER - 1
        /\ ~ret.ok => ret.err = "invalid_argument"
        /\ (ret.op = "PrivateKey_bytes" /\ Len(input.arg) = KEY_BYTES) =>
              C8_Decides(BytesToInt(input.arg))
        /\ ret.op = "PrivateKey_int" => C8_Decides(input.arg)
        /\ (ret.op = "PrivateKey_hex" /\ C8_IsHexEncoding(input.arg)) =>
              C8_Decides(C8_HexValue(input.arg))

\* C8 (witness): the constructor from raw bytes was called on CURVE_ORDER - 1 and
\* returned an object.
C8_Witness ==
    /\ ret.op = "PrivateKey_bytes"
    /\ input.arg = IntToBytes(CURVE_ORDER - 1, KEY_BYTES)
    /\ ret.ok

\* C9 (as stated): the constructor from a hex string raises whenever the string
\* contains a character that is no hex digit, and returns an object only for a
\* string of exactly 2 * KEY_BYTES hex digits that encodes a value of [1, n).
C9_MalformedHexRejected ==
    ret.op = "PrivateKey_hex" =>
        /\ (\E i \in 1 .. Len(input.arg) : ~IsHexDigit(input.arg[i])) => ~ret.ok
        /\ ret.ok => /\ C8_IsHexEncoding(input.arg)
                     /\ C8_HexValue(input.arg) \in 1 .. CURVE_ORDER - 1

\* the bytes are the big-endian coordinates x, y of a point of the curve
C10_OnCurve(xs, ys) ==
    /\ BytesToInt(xs) < FIELD_PRIME
    /\ BytesToInt(ys) < FIELD_PRIME
    /\ OnCurve(BytesToInt(xs), BytesToInt(ys))

\* the bytes are the big-endian coordinate x of a point of the curve
C10_IsAbscissa(xs) ==
    /\ BytesToInt(xs) < FIELD_PRIME
    /\ \E y \in 0 .. FIELD_PRIME - 1 : OnCurve(BytesToInt(xs), y)

\* the input is one of the three accepted encodings of a point of the curve
C10_Accepted(data, raw) ==
    \/ /\ raw
       /\ Len(data) = 2 * KEY_BYTES
       /\ C10_OnCurve(SubSeq(data, 1, KEY_BYTES), SubSeq(data, KEY_BYTES + 1, 2 * KEY_BYTES))
    \/ /\ ~raw
       /\ Len(data) = 1 + KEY_BYTES
       /\ data[1] \in {2, 3}
       /\ C10_IsAbscissa(SubSeq(data, 2, 1 + KEY_BYTES))
    \/ /\ ~raw
       /\ Len(data) = 1 + 2 * KEY_BYTES
       /\ data[1] = 4
       /\ C10_OnCurve(SubSeq(data, 2, 1 + KEY_BYTES),
                      SubSeq(data, 2 + KEY_BYTES, 1 + 2 * KEY_BYTES))

\* C10: the PublicKey constructor succeeds exactly on 1 + KEY_BYTES bytes with prefix
\* 2 or 3, on 1 + 2 * KEY_BYTES bytes with prefix 4 and, in raw mode, on 2 * KEY_BYTES
\* bytes, that encode a point of the curve; on everything else it raises
\* invalid_argument and returns no object.
C10_PointValidation ==
    ret.op = "PublicKey_bytes" =>
        /\ ret.ok <=> C10_Accepted(input.arg, input.raw)
        /\ ~ret.ok => ret.err = "invalid_argument"
        /\ ret.ok => ec_pubkey_parse(ret.val.point_data) \in AffinePoints

\* C10 (witness): an uncompressed encoding of the right length and prefix whose
\* coordinates are field elements but no point of the curve was refused.
C10_Witness ==
    /\ ret.op = "PublicKey_bytes"
    /\ ~input.raw
    /\ Len(input.arg) = 1 + 2 * KEY_BYTES
    /\ input.arg[1] = 4
    /\ BytesToInt(SubSeq(input.arg, 2, 1 + KEY_BYTES)) < FIELD_PRIME
    /\ BytesToInt(SubSeq(input.arg, 2 + KEY_BYTES, 1 + 2 * KEY_BYTES)) < FIELD_PRIME
    /\ ~ret.ok

\* the two sides of the homomorphism for the keys a, b
C11_PointSum(a_p, b_p) ==
    Bind(pubkey(a_p), LAMBDA A : Bind(pubkey(b_p), LAMBDA B : PublicKey_add(A, B)))

C11_ScalarSum(a_p, b_p) == Bind(tweak_add(a_p, b_p), LAMBDA sum : pubkey(sum))

\* C11 (as amended): for all scalars a, b of [1,n) with a + b # n,
\* a.pubkey() + b.pubkey() and a.tweak_add(b).pubkey() both return, return equal
\* points, and the point is ((a + b) mod n) * G; for a + b = n both raise
C11_Homomorphism ==
    input.op \in {"operator+", "tweak_add"} =>
        LET lhs == C11_PointSum(input.a, input.b)
            rhs == C11_ScalarSum(input.a, input.b)
            sum == (input.a + input.b) % CURVE_ORDER
        IN /\ ret = Outcome(input.op, IF input.op = "operator+" THEN lhs ELSE rhs)
           /\ IF sum = 0
              THEN Raised /\ ~lhs.ok /\ ~rhs.ok
              ELSE /\ ret.ok /\ lhs.ok /\ rhs.ok
                   /\ PublicKey_eq(lhs.val, rhs.val)
                   /\ lhs.val = rhs.val
                   /\ to_data(ret.val) = ec_mul(sum, ec_pubkey_parse(GENERATOR_POINT))

\* the point side has returned the sum of two different public keys
C11_Witness ==
    /\ input.op = "operator+"
    /\ input.a # input.b
    /\ ret.ok
    /\ ret.val = C11_ScalarSum(input.a, input.b).val

\* C11 as stated: both sides are defined for every pair a, b of [1,n)
C11_Original ==
    input.op \in {"operator+", "tweak_add"} => ret.ok

\* C12: when RAND_bytes reports failure, the default PrivateKey constructor
\* raises and returns no scalar
C12_FailsWithoutSecureSource ==
    (input.op = "PrivateKey_random" /\ ~input.draw.secure) => Raised

\* the hash the loop of hash_to_curve(input.message) tries at the counter c
C13_HashOutput(c) ==
    sha256(salt, sha256(salt, DOMAIN_SEPARATOR \o input.message) \o uint32_to_le_bytes(c))

\* hash_output is the x-coordinate of a point of the curve
C13_ValidX(hash_output) ==
    /\ BytesToInt(hash_output) < FIELD_PRIME
    /\ \E y \in 0 .. FIELD_PRIME - 1 : OnCurve(BytesToInt(hash_output), y)

\* C13: hash_to_curve tries the counters 0, 1, 2, ... in increasing order on
\* SHA256(tag || message), returns the even-y (0x02-prefixed) point of the smallest
\* counter whose hash is a valid x-coordinate, tries at most HTC_MAX_ITER counters,
\* and raises a fatal error when none of them is valid
C13_HashToCurveIteration ==
    input.op = "hash_to_curve" =>
        /\ htc_counter \in 0 .. HTC_MAX_ITER
        /\ \A c \in 0 .. htc_counter - 1 : ~C13_ValidX(C13_HashOutput(c))
        /\ pc = "hash_to_curve" => ret = NoRet
        /\ pc = "called" =>
              /\ ret = Outcome(input.op, hash_to_curve_bytes(salt, input.message))
              /\ IF ret.ok
                 THEN /\ htc_counter < HTC_MAX_ITER
                      /\ C13_ValidX(C13_HashOutput(htc_counter))
                      /\ ret.val.point_data = <<2>> \o C13_HashOutput(htc_counter)
                      /\ to_data(ret.val)[1] = BytesToInt(C13_HashOutput(htc_counter))
                      /\ to_data(ret.val)[2] % 2 = 0
                 ELSE /\ ret.err = "runtime_error"
                      /\ htc_counter = HTC_MAX_ITER

\* hash_to_curve has returned a point after at least one counter failed
C13_Witness ==
    /\ input.op = "hash_to_curve"
    /\ pc = "called"
    /\ ret.ok
    /\ htc_counter > 0

\* hash_to_curve has raised after HTC_MAX_ITER counters failed
C13_Exhausted ==
    /\ input.op = "hash_to_curve"
    /\ pc = "called"
    /\ ~ret.ok
    /\ htc_counter = HTC_MAX_ITER

\* C14: every call of hash_to_curve, hash_to_curve_deprecated and
\* step1_alice_deprecated that has entered its hash-to-curve loop eventually
\* returns a value or raises
C14_EveryCallTerminates ==
    (pc \in {"hash_to_curve", "hash_to_curve_deprecated"}) ~> (pc = "called")

\* lexicographic order of version triples, by the number that the triple spells
\* when every component is below 100
C15_Rank(v) == v.major * 10000 + v.minor * 100 + v.patch

\* the result of the generation that the version v selects, called directly
C15_Selected(v) ==
    IF C15_Rank(v) < C15_Rank(VersionTuple(0, 12, 0))
    THEN derive_keys_backwards_compatible_insecure_pre_0_12(salt, input.seed,
                                                            input.derivation_path)
    ELSE IF C15_Rank(v) < C15_Rank(VersionTuple(0, 15, 0))
    THEN derive_keys_deprecated_pre_0_15(salt, input.seed, input.amounts,
                                         input.derivation_path)
    ELSE derive_keys(salt, input.seed, input.derivation_path, input.amounts)

\* C15: for every version triple, derive_keys_version_aware returns what the
\* generation selected by lexicographic comparison with 0.12.0 and 0.15.0 returns
\* when called directly (legacy below 0.12.0, intermediate below 0.15.0, else HD)
C15_VersionDispatch ==
    input.op = "derive_keys_version_aware" =>
        \A v \in VersionTriples, prefix \in {<<>>, <<"v">>} :
            input.version = VersionString(prefix, v) =>
                ret = Outcome(input.op, C15_Selected(v))

\* version 1.0.0 has selected the HD derivation, which returned keys that the
\* other two generations do not return
C15_Witness ==
    /\ input.op = "derive_keys_version_aware"
    /\ input.version = VersionString(<<>>, VersionTuple(1, 0, 0))
    /\ ret.ok
    /\ ret.val # EmptyMap
    /\ ret # Outcome(input.op, C15_Selected(VersionTuple(0, 0, 0)))
    /\ ret # Outcome(input.op, C15_Selected(VersionTuple(0, 12, 0)))

\* str is a dotted triple of non-negative integers, optionally prefixed by "v"
C16_WellFormed(str) ==
    LET clean == IF str # <<>> /\ Head(str) = "v" THEN Tail(str) ELSE str
        dots == {i \in 1 .. Len(clean) : clean[i] = "."}
    IN /\ Cardinality(dots) = 2
       /\ \A i \in 1 .. Len(clean) : i \in dots \/ IsDigit(clean[i])
       /\ \A i \in dots : i # 1 /\ i # Len(clean) /\ i + 1 \notin dots

\* C16: derive_keys_version_aware and derive_keyset_id_version_aware raise for
\* every version string that is not a well-formed dotted triple
C16_MalformedVersionRejected ==
    (/\ input.op \in {"derive_keys_version_aware", "derive_keyset_id_version_aware"}
     /\ ~C16_WellFormed(input.version))
        => Raised

\* the version string of the call parses to a triple below the cutoff minor.0 of
\* major version 0
C17_Below(minor) ==
    /\ parse_version(input.version).ok
    /\ C15_Rank(parse_version(input.version).val) < C15_Rank(VersionTuple(0, minor, 0))

\* the call with the amount list replaced
C17_WithAmounts(amounts) ==
    Outcome(input.op, derive_keys_version_aware(salt, input.seed, input.derivation_path,
                                                amounts, input.version))

\* the amount lists that differ from the call's in exactly one place
C17_OneAmountChanged ==
    {amounts \in AmountLists :
        /\ Len(amounts) = Len(input.amounts)
        /\ Cardinality({i \in 1 .. Len(amounts) : amounts[i] # input.amounts[i]}) = 1}

\* no amount occurs twice in the list
C17_NoRepetition(amounts) ==
    \A i, j \in 1 .. Len(amounts) : amounts[i] = amounts[j] => i = j

C18_HexDigit(h, j) == (h \div (HEX_BASE ^ (2 * KEY_BYTES - j))) % HEX_BASE

RECURSIVE C18_TextValue(_, _)
\* the big-endian number spelled by the bytes of the first j characters of the hex
\* text of h
C18_TextValue(h, j) ==
    IF j = 0 THEN 0
    ELSE C18_TextValue(h, j - 1) * BYTE_MOD + encoded_hex_byte(HexDigits[C18_HexDigit(h, j) + 1])

\* the legacy scalar of the amount 2^i
C18_Scalar(i) ==
    C18_TextValue(
        BytesToInt(sha256(salt, AsciiBytes(input.seed \o input.derivation_path
                                           \o <<DecDigits[i + 1]>>))),
        KEY_BYTES)

\* C18: for every version < 0.12.0 and every amount list, derive_keys_version_aware
\* returns a map with exactly the keys 1, 2, 4, 8, 16, 32, the scalar of 2^i being the
\* bytes of the first characters of the hex text of SHA256(seed || path || decimal(i));
\* the amount list has no influence
C18_LegacyFixedAmounts ==
    (/\ input.op = "derive_keys_version_aware"
     /\ C16_WellFormed(input.version)
     /\ C17_Below(12))
        => /\ ret.ok
           /\ DOMAIN ret.val = {1, 2, 4, 8, 16, 32}
           /\ \A i \in 0 .. 5 : ret.val[2 ^ i] = C18_Scalar(i)
           /\ \A amounts \in AmountLists : C17_WithAmounts(amounts) = ret

\* a legacy derivation was asked for the amounts 2 and 1 only and has returned
C18_Witness ==
    /\ input.op = "derive_keys_version_aware"
    /\ input.version = VersionString(<<>>, VersionTuple(0, 11, 1))
    /\ input.amounts = <<2, 1>>
    /\ ret.ok
    /\ Cardinality(DOMAIN ret.val) = 6

\* the position in keys of the pair with the i-th smallest amount
C19_Position(keys, i) ==
    CHOOSE j \in 1 .. Len(keys) :
        Cardinality({k \in 1 .. Len(keys) : keys[k][1] < keys[j][1]}) = i - 1

\* the public points of a key map, as curve points, by ascending amount
C19_PointsByAmount(keys) ==
    [i \in 1 .. Len(keys) |-> to_data(keys[C19_Position(keys, i)][2])]

\* the identifier derivation that was called, applied to another key map
C19_Id(keys) ==
    IF input.op = "derive_keyset_id" THEN derive_keyset_id(salt, keys)
    ELSE derive_keyset_id_deprecated(salt, keys)

\* C19: derive_keyset_id and derive_keyset_id_deprecated depend only on the sequence
\* of public points by ascending amount: every key map with the same points in
\* amount order, whatever its iteration order, its amounts and the stored form of
\* its points, has the identifier that the call returned
C19_KeysetIdStability ==
    input.op \in {"derive_keyset_id", "derive_keyset_id_deprecated"} =>
        \A keys \in KeyMaps :
            C19_PointsByAmount(keys) = C19_PointsByAmount(input.keys) =>
                Outcome(input.op, C19_Id(keys)) = ret

\* a map of two different points that iterates from the larger amount to the
\* smaller has got an identifier, and the map with the two points exchanged has
\* another one
C19_Witness ==
    /\ input.op = "derive_keyset_id"
    /\ Len(input.keys) = 2
    /\ input.keys[2][1] < input.keys[1][1]
    /\ to_data(input.keys[1][2]) # to_data(input.keys[2][2])
    /\ ret.ok
    /\ ret.val # derive_keyset_id(salt, << <<input.keys[1][1], input.keys[2][2]>>,
                                           <<input.keys[2][1], input.keys[1][2]>> >>).val

RECURSIVE C20_Compressed(_)
\* the compressed serializations of a sequence of curve points, concatenated
C20_Compressed(points) ==
    IF points = <<>> THEN <<>>
    ELSE ec_pubkey_serialize(Head(points), TRUE) \o C20_Compressed(Tail(points))

\* C20: for every key map, the empty one included, and every version triple,
\* derive_keyset_id_version_aware returns below 0.15.0 the legacy identifier (what
\* derive_keyset_id_deprecated returns: the first base64 characters, none of them
\* padding, of the hash of the hex text of the compressed points) and from 0.15.0 on
\* the current one (what derive_keyset_id returns: "00" and the first hex digits of
\* the hash of the compressed points)
C20_KeysetIdFormatAndGate ==
    (/\ input.op = "derive_keyset_id_version_aware"
     /\ C16_WellFormed(input.version))
        => LET raw == C20_Compressed(C19_PointsByAmount(input.keys))
           IN /\ ret.ok
              /\ IF C17_Below(15)
                 THEN /\ ret = Outcome(input.op,
                                       derive_keyset_id_deprecated(salt, input.keys))
                      /\ Len(ret.val) = KEYSET_ID_B64_CHARS
                      /\ \A i \in 1 .. Len(ret.val) :
                            \E d \in 1 .. B64_BASE : ret.val[i] = Base64Digits[d]
                      /\ ret.val = SubSeq(bytes_to_base64(
                                              sha256(salt, StringBytes(bytes_to_hex(raw)))),
                                          1, KEYSET_ID_B64_CHARS)
                 ELSE /\ ret = Outcome(input.op, derive_keyset_id(salt, input.keys))
                      /\ Len(ret.val) = 2 + KEYSET_ID_HEX_CHARS
                      /\ SubSeq(ret.val, 1, 2) = <<"0", "0">>
                      /\ \A i \in 3 .. Len(ret.val) : IsHexDigit(ret.val[i])
                      /\ SubSeq(ret.val, 3, Len(ret.val))
                            = SubSeq(bytes_to_hex(sha256(salt, raw)),
                                     1, KEYSET_ID_HEX_CHARS)

\* version 0.14.1 has got the legacy identifier of the empty key map
C20_Witness ==
    /\ input.op = "derive_keyset_id_version_aware"
    /\ input.version = VersionString(<<>>, VersionTuple(0, 14, 1))
    /\ input.keys = <<>>
    /\ ret.ok
    /\ Len(ret.val) = KEYSET_ID_B64_CHARS
    /\ ret.val # derive_keyset_id(salt, input.keys).val

\* C21: get_privkey_from_path raises, and derives no key, for every path that is_valid_path
\* refuses (a path that is not "m" followed by "/"-separated runs of decimal digits,
\* each optionally followed by an apostrophe)
C21_MalformedPathRejected ==
    (input.op = "get_privkey_from_path" /\ ~is_valid_path(input.path)) => ~ret.ok

\* C22: under every interleaving of the calling threads the context is created
\* once at most, is never modified after its creation, and a call that has returned
\* has the outcome of the same call run alone
C22_SharedContext ==
    [][/\ ctx'.created <= 1
       /\ ctx.state = "done" => ctx' = ctx
       /\ \A t \in Threads :
             thread'[t].pc = "returned" =>
                 thread'[t].ret =
                     Outcome(thread'[t].call.op,
                             IF thread'[t].call.op = "pubkey" THEN pubkey(thread'[t].call.a)
                             ELSE PublicKey_tweak_mul(PublicKey_bytes(GENERATOR_POINT, FALSE).val,
                                                      thread'[t].call.a))]_vars

\* two threads have returned from different calls, the second having got the
\* context that the first created
C22_Witness ==
    /\ ctx.created = 1
    /\ \A t \in {1, 2} : thread[t].pc = "returned" /\ thread[t].ret.ok
    /\ thread[1].call.op # thread[2].call.op
    /\ thread[1].ptr = thread[2].ptr

\* C23: calculate_number_of_blank_outputs(0) = 0; for a fee reserve > 0 the result is
\* the smallest k >= 1 with 2^k >= fee reserve (10 for 1000); every negative fee
\* reserve is rejected with an error instead of a number
C23_BlankOutputFormula ==
    input.op = "calculate_number_of_blank_outputs" =>
        /\ input.fee_reserve_sat = 0 => ret.ok /\ ret.val = 0
        /\ input.fee_reserve_sat > 0 =>
              /\ ret.ok
              /\ ret.val >= 1
              /\ 2 ^ ret.val >= input.fee_reserve_sat
              /\ \A k \in 1 .. ret.val - 1 : 2 ^ k < input.fee_reserve_sat
              /\ input.fee_reserve_sat = 1000 => ret.val = 10
        /\ input.fee_reserve_sat < 0 => ~ret.ok

\* the number that the words of a mnemonic spell, WORD_BITS bits a word
RECURSIVE C24_Number(_)
C24_Number(words) ==
    IF words = <<>> THEN 0
    ELSE C24_Number(SubSeq(words, 1, Len(words) - 1)) * (2 ^ WORD_BITS)
         + find_word_index(words[Len(words)][1], wordlist)

\* the words encode an entropy: a number of words the encoder can return, every
\* word of the wordlist, and the low bits of their number the first bits of the
\* hash of the entropy that its high bits spell
C24_IsEncoding(words) ==
    /\ Len(words) \in {WORDS_MIN, WORDS_MAX}
    /\ \A i \in 1 .. Len(words) :
          Len(words[i]) = 1 /\ \E k \in 1 .. Len(wordlist) : wordlist[k] = words[i][1]
    /\ LET cs == Len(words) \div 3
           size == (Len(words) * WORD_BITS - cs) \div BYTE_BITS
           entropy == IntToBytes(C24_Number(words) \div (2 ^ cs), size)
       IN C24_Number(words) % (2 ^ cs)
            = BytesToInt(sha256(salt, entropy)) \div (2 ^ (KEY_BYTES * BYTE_BITS - cs))

C25_AesRoundTrip ==
    /\ input.op = "decrypt" => ret.ok /\ ret.val = input.message
    /\ (input.op = "encrypt" /\ input.key # <<>> /\ input.draw.secure)
          => /\ ret.ok
             /\ decrypt(salt, input.key, ret.val) = Ok(input.message)
             /\ \A i \in 1 .. Len(ret.val) : ret.val[i] \notin {"=", "+", "/"}
             /\ encode_base64_urlsafe(decode_base64_urlsafe(ret.val)) = ret.val
             /\ SubSeq(decode_base64_urlsafe(ret.val), 1, Len(SALT_HEADER) + AES_SALT_LEN)
                  = SALT_HEADER \o input.draw.bytes
    /\ input.op = "encrypt"
          => LET d == input.message
             IN /\ Len(pad(d)) % BLOCK_SIZE = 0
                /\ Len(pad(d)) - Len(d) \in 1 .. BLOCK_SIZE
                /\ SubSeq(pad(d), 1, Len(d)) = d
                /\ unpad(pad(d)) = Ok(d)
                /\ decode_base64_urlsafe(encode_base64_urlsafe(d)) = d

\* a message of one whole block that ends like a padding has come back from
\* decrypt, through a text with URL-safe characters
C25_Witness ==
    /\ input.op = "decrypt"
    /\ Len(input.message) = BLOCK_SIZE
    /\ input.message[BLOCK_SIZE] = 1
    /\ \E i \in 1 .. Len(input.encrypted) : input.encrypted[i] \in {"-", "_"}
    /\ ret.ok
    /\ ret.val = input.message

\* the bytes a derivation step feeds to HMAC-SHA512 before the index: 0x00 and the
\* parent key for a hardened index, the compressed parent public key otherwise
C26_Data(key, index) ==
    IF index >= HARDENED_BIT THEN <<0>> \o IntToBytes(key, KEY_BYTES)
    ELSE PublicKey_serialize(pubkey(key).val, TRUE).val

RECURSIVE C26_Fold(_, _, _)
\* the child step folded over the indices from the pair (key, chain); NoKey when a
\* key on the way is not a valid scalar
C26_Fold(key, chain, indices) ==
    IF key \notin 1 .. CURVE_ORDER - 1 THEN NoKey
    ELSE IF indices = <<>> THEN key
    ELSE LET h == hmac_sha512(salt, chain,
                              C26_Data(key, Head(indices))
                              \o uint32_to_big_endian(Head(indices)))
         IN C26_Fold((key + BytesToInt(SubSeq(h, 1, KEY_BYTES))) % CURVE_ORDER,
                     SubSeq(h, KEY_BYTES + 1, 2 * KEY_BYTES), Tail(indices))

\* the scalar of list position i (from 0) of the call in input
C26_Scalar(i) ==
    LET master == hmac_sha512(salt, BITCOIN_SEED, AsciiBytes(input.seed))
    IN C26_Fold(BytesToInt(SubSeq(master, 1, KEY_BYTES)),
                SubSeq(master, KEY_BYTES + 1, 2 * KEY_BYTES),
                parse_path(input.derivation_path).val \o <<HARDENED_BIT + i>>)

\* C26: in derive_keys the scalar of the amount at list position i is the fold of
\* the child step over the path segments followed by the hardened index i, from
\* the two halves of HMAC-SHA512("Bitcoin seed", seed); every step is keyed with
\* the chain code of the step before it, hashes 0x00, the parent key and the index
\* (hardened) or the compressed parent public key and the index, and sets the
\* child to (parent + left half) mod n and the chain code to the right half; the
\* call raises when a key on the way is not a valid scalar
C26_HDDerivationStep ==
    input.op = "derive_keys" =>
        IF \E i \in 1 .. Len(input.amounts) : C26_Scalar(i - 1) = NoKey
        THEN ~ret.ok
        ELSE /\ ret.ok
             /\ \A i \in 1 .. Len(input.amounts) :
                   (\A j \in i + 1 .. Len(input.amounts) :
                       input.amounts[j] # input.amounts[i])
                   => ret.val[input.amounts[i]] = C26_Scalar(i - 1)

\* derive_keys has returned two keys below a path of at least one level
C26_Witness ==
    /\ input.op = "derive_keys"
    /\ ret.ok
    /\ Len(parse_path(input.derivation_path).val) >= 1
    /\ Cardinality(DOMAIN ret.val) = 2

\* the outcome of the step1_alice call in input had the random source returned draw
C27_Step1With(draw) ==
    Outcome("step1_alice", step1_alice(salt, secret, input.blinding_factor, draw))

\* the outcome of the step2_bob_dleq call in input had the random source returned draw
C27_Step2With(draw) ==
    Outcome("step2_bob_dleq",
            Bind(mult(B_, a), LAMBDA C_p :
            Bind(step2_bob_dleq(salt, B_, a, input.p_bytes, draw, draw), LAMBDA dleq :
            Ok(<<C_p, dleq[1], dleq[2]>>))))

\* C27: with a blinding factor passed to step1_alice, or a nonce p passed to
\* step2_bob_dleq, the outcome of the call (values or error) is the same whatever
\* the random source returns
C27_SuppliedRandomness ==
    /\ (input.op = "step1_alice" /\ input.blinding_factor # NoKey)
          => \A draw \in SessionDraws : ret = C27_Step1With(draw)
    /\ (input.op = "step2_bob_dleq" /\ input.p_bytes # <<>>)
          => \A draw \in SessionDraws : ret = C27_Step2With(draw)

\* the part of C27 about step1_alice alone
C27_Step1Alone ==
    (input.op = "step1_alice" /\ input.blinding_factor # NoKey)
        => \A draw \in SessionDraws : ret = C27_Step1With(draw)

\* the scalar k of [1, n) with pk = k*G
C28_Log(pk) == CHOOSE k \in Scalars : to_data(pubkey(k).val) = to_data(pk)

RECURSIVE C28_LogSum(_)
\* the sum of the logarithms of the objects a combine list names
C28_LogSum(which) ==
    IF which = <<>> THEN 0
    ELSE C28_Log(IF Head(which) = 1 THEN B_ ELSE C_) + C28_LogSum(Tail(which))

\* the mathematical result of the call in input, as a residue modulo n: the scalar
\* returned, or the logarithm of the point returned; 0 is the zero scalar and the
\* point at infinity
C28_Residue ==
    CASE input.op = "PrivateKey::tweak_add" -> (a + input.scalar) % CURVE_ORDER
      [] input.op = "PrivateKey::tweak_mul" -> (a * input.scalar) % CURVE_ORDER
      [] input.op = "PublicKey::operator+" -> (C28_Log(B_) + C28_Log(C_)) % CURVE_ORDER
      [] input.op = "PublicKey::operator-" ->
            (C28_Log(B_) + CURVE_ORDER - C28_Log(C_)) % CURVE_ORDER
      [] input.op = "PublicKey::tweak_mul" -> (C28_Log(B_) * input.scalar) % CURVE_ORDER
      [] input.op = "PublicKey::combine" -> C28_LogSum(input.scalar) % CURVE_ORDER

C28_Ops ==
    {"PrivateKey::tweak_add", "PrivateKey::tweak_mul", "PublicKey::operator+",
     "PublicKey::operator-", "PublicKey::tweak_mul", "PublicKey::combine"}

\* v is a PublicKey object holding a finite point of the curve
C28_FinitePoint(v) ==
    /\ ec_pubkey_parse(v.point_data) # Infinity
    /\ ec_pubkey_parse(v.point_data)[1] \in 0 .. FIELD_PRIME - 1
    /\ ec_pubkey_parse(v.point_data)[2] \in 0 .. FIELD_PRIME - 1
    /\ OnCurve(ec_pubkey_parse(v.point_data)[1], ec_pubkey_parse(v.point_data)[2])

\* the objects held and the value returned are valid, and a call whose result is
\* the zero scalar or the point at infinity has raised
C28_Valid ==
    /\ pc = "held" => a \in Scalars /\ C28_FinitePoint(B_) /\ C28_FinitePoint(C_)
    /\ (pc = "called" /\ input.op \in C28_Ops) =>
          /\ a \in Scalars /\ C28_FinitePoint(B_) /\ C28_FinitePoint(C_)
          /\ C28_Residue = 0 => ~ret.ok
          /\ ret.ok =>
                IF input.op \in {"PrivateKey::tweak_add", "PrivateKey::tweak_mul"}
                THEN ret.val \in Scalars /\ ret.val = C28_Residue
                ELSE C28_FinitePoint(ret.val) /\ C28_Log(ret.val) = C28_Residue

\* C28: no zero scalar and no point at infinity is returned: every PrivateKey held
\* or returned lies in [1, n), every PublicKey held or returned is a finite point of
\* the curve; tweak_add with a + b = 0 mod n, tweak_mul by a multiple of n,
\* P + (-P), P - P and a combine that sums to infinity raise; and a call leaves the
\* objects it is called on unchanged
C28_NoZeroNoInfinity ==
    [][/\ C28_Valid'
       /\ pc = "held" => <<a, B_, C_>>' = <<a, B_, C_>>]_vars

\* combine has raised on three points that sum to infinity, no two of which do
C28_Witness ==
    /\ pc = "called"
    /\ input.op = "PublicKey::combine"
    /\ Len(input.scalar) = 3
    /\ C28_Residue = 0
    /\ (C28_Log(B_) + C28_Log(C_)) % CURVE_ORDER # 0
    /\ ~ret.ok
    /\ ret.err = "runtime_error"

C29_Deprecated == "derive_keys_deprecated_pre_0_15"

C29_Insecure == "derive_keys_backwards_compatible_insecure_pre_0_12"

\* the call in input with the seed and the path replaced
C29_Call(seed, path) ==
    Outcome(input.op,
            IF input.op = C29_Deprecated
            THEN derive_keys_deprecated_pre_0_15(salt, seed, input.amounts, path)
            ELSE derive_keys_backwards_compatible_insecure_pre_0_12(salt, seed, path))

\* the scalar the call in input derives from a character string alone
C29_KeyOfString(str) ==
    IF input.op = C29_Deprecated
    THEN BytesToInt(sha256(salt, AsciiBytes(str)))
    ELSE C18_TextValue(BytesToInt(sha256(salt, AsciiBytes(str))), KEY_BYTES)

\* the list positions of the call in input, from 0, and the amount of a position
C29_Positions ==
    IF input.op = C29_Deprecated THEN 0 .. Len(input.amounts) - 1 ELSE 0 .. 5

C29_Amount(i) == IF input.op = C29_Deprecated THEN input.amounts[i + 1] ELSE 2 ^ i

\* the positions whose entry no later position overwrites
C29_Kept == {i \in C29_Positions : \A j \in C29_Positions : j > i => C29_Amount(j) # C29_Amount(i)}

\* the positions of another call, of one and of two decimal digits
C29_OtherPositions == 0 .. 10

\* the pairs <<path, position>> that spell the same characters after the seed as
\* position i of the call in input
C29_SameSpelling(i) ==
    {q \in HashPaths \X C29_OtherPositions :
        q[1] \o to_string(q[2]) = input.derivation_path \o to_string(i)}

\* C29: in derive_keys_deprecated_pre_0_15 and
\* derive_keys_backwards_compatible_insecure_pre_0_12 the scalar of position i
\* depends only on the characters seed || path || decimal(i): two calls whose seed
\* and path concatenate to the same string have the same outcome, and position i
\* has the scalar of position j under another path of the same seed whenever the
\* path and the decimal position spell the same characters
C29_UnseparatedHashInput ==
    input.op \in {C29_Deprecated, C29_Insecure} =>
        /\ \A seed \in HashSeeds, path \in HashPaths :
              seed \o path = input.seed \o input.derivation_path
                  => C29_Call(seed, path) = ret
        /\ ret.ok => \A i \in C29_Kept :
              /\ ret.val[C29_Amount(i)]
                    = C29_KeyOfString(input.seed \o input.derivation_path \o to_string(i))
              /\ \A q \in C29_SameSpelling(i) :
                    ret.val[C29_Amount(i)] = C29_KeyOfString(combined_of(input.seed, q[1], q[2]))

\* derive_keys_deprecated_pre_0_15 has returned a key for a seed and a path that
\* another seed and path spell as well, at a position that a two-digit position of
\* another path spells as well
C29_Witness ==
    /\ input.op = C29_Deprecated
    /\ ret.ok
    /\ input.amounts # <<>>
    /\ \E seed \in HashSeeds, path \in HashPaths :
          /\ seed # input.seed
          /\ seed \o path = input.seed \o input.derivation_path
    /\ \E q \in C29_SameSpelling(0) : q[1] # input.derivation_path /\ q[2] = 10

\* the scalar the call in input derives for list position i (from 0), whatever the
\* amounts are
C30_PositionScalar(i) ==
    IF input.op = "derive_keys" THEN C26_Scalar(i)
    ELSE BytesToInt(sha256(salt, AsciiBytes(input.seed \o input.derivation_path
                                            \o to_string(i))))

\* the last list position (from 0) that holds the amount
C30_LastPosition(amount) ==
    CHOOSE i \in 0 .. Len(input.amounts) - 1 :
        /\ input.amounts[i + 1] = amount
        /\ \A j \in i + 1 .. Len(input.amounts) - 1 : input.amounts[j + 1] # amount

\* C30: derive_keys and derive_keys_deprecated_pre_0_15 return a map with exactly
\* one entry per distinct amount of the list; the entry of an amount holds the
\* scalar derived for the last list position of the amount, a scalar that depends
\* on the position and not on the amount
C30_DuplicateAmounts ==
    (input.op \in {"derive_keys", "derive_keys_deprecated_pre_0_15"} /\ ret.ok) =>
        /\ DOMAIN ret.val = {input.amounts[i] : i \in 1 .. Len(input.amounts)}
        /\ Cardinality(DOMAIN ret.val) <= Len(input.amounts)
        /\ \A amount \in DOMAIN ret.val :
              ret.val[amount] = C30_PositionScalar(C30_LastPosition(amount))

\* an amount occurs twice, the two positions derive different scalars, and the map
\* returned has one entry
C30_Witness ==
    /\ input.op \in {"derive_keys", "derive_keys_deprecated_pre_0_15"}
    /\ ret.ok
    /\ Len(input.amounts) = 2
    /\ input.amounts[1] = input.amounts[2]
    /\ Cardinality(DOMAIN ret.val) = 1
    /\ C30_PositionScalar(0) # C30_PositionScalar(1)

====
